---- MODULE Spec2Model ----
(***************************************************************************)
(* Collaborative canvas: the per-room operation log with per-user          *)
(* undo/redo (server/drawing-state.js), the socket.io gateway that owns    *)
(* the rooms (server/server.js) and the browser client (client/            *)
(* websocket.js).                                                          *)
(***************************************************************************)
EXTENDS Integers, Sequences, FiniteSets, TLC

\* ------------------------------------------------------------------ bounds
\* Largest number of operation objects the draw handler creates in one run.
MaxOps == 3

\* Largest number of draw events the gateway handles in one run.
MaxDraws == 2

\* Largest number of messages in flight from the server to one connection.
MaxInFlight == 2

\* ------------------------------------------------------------ value domains
\* userIds the events carry.
UserIds == {"A", "B", "C"}

\* The payload of a draw event: one line segment with its color and width.
Segments ==
  { [x0 |-> 0, y0 |-> 0, x1 |-> 5, y1 |-> 5, color |-> "#FF0000", width |-> 3],
    [x0 |-> 10, y0 |-> 10, x1 |-> 15, y1 |-> 15, color |-> "#0000FF", width |-> 2] }

\* The segments the client of a user reports to the gateway: the user keeps
\* one pen (currentColor, currentWidth) and one stretch of the canvas.
SegmentsOf(userId) == {g \in Segments : (g.color = "#FF0000") = (userId = "A")}

\* The roomId and the userIds the gateway events carry, the display name, and
\* the points a cursor-move reports.
RoomIds == {"r1"}

GatewayUserIds == {"A", "B"}

UserNames == {"User"}

Points == {[x |-> 0, y |-> 0], [x |-> 5, y |-> 5]}

\* The userIds of a crowded room, in the order in which they first join: one
\* more than the palette has colors.
PaletteUsers == <<"U1", "U2", "U3", "U4", "U5", "U6", "U7", "U8", "U9">>

PaletteUserIds == {PaletteUsers[i] : i \in 1..Len(PaletteUsers)}

\* The connections that reach the server in one run, by socket id.
Sockets == {1, 2}

\* What Map.get returns for a missing key.
Undefined == "undefined"

VARIABLES
  rooms,        \* the Map roomId -> Room, in insertion order
  userColors,   \* the Map userId -> color
  connected,    \* connected[s]: "idle", "connected" or "disconnected"
  socketRooms,  \* socketRooms[s]: socket.rooms without the socket's own id
  outbox,       \* outbox[s]: messages emitted to s and not yet received
  view,         \* view[s]: the strokes on the canvas of the client of s
  log,      \* a DrawingState object: [history, userRedoStacks]
  held,     \* the array a caller holds from an earlier getHistory(): [kind, items]
  trip,     \* the log as it was when a user set out to undo and redo: [user, before]
  client,       \* client[s]: the WebSocketManager behind s: [roomId, localUndoStack, localRedoStack]
  uplink,       \* uplink[s]: the message the client of s has emitted, or NoPacket
  ret,      \* the value the last DrawingState method call returned
  call,     \* the last DrawingState method call: [name, userId]
  nextId,   \* number of operation objects created so far (object identity)
  clock     \* the last value Date.now() returned

\* What the gateway's handlers never write: the log driven call by call, and
\* the clients' own state.
logVars == <<log, ret, call, held, trip, client, uplink>>
gatewayVars == <<rooms, userColors, connected, socketRooms, outbox, view>>
vars == <<rooms, userColors, connected, socketRooms, outbox, view, log, ret, call, held,
          trip, client, uplink, nextId, clock>>

\* ------------------------------------------------------ JavaScript Map/Array
\* A Map is a function whose domain is the set of its keys.
EmptyMap == [k \in {} |-> <<>>]

MapHas(m, k) == k \in DOMAIN m

MapSet(m, k, v) == [x \in (DOMAIN m) \cup {k} |-> IF x = k THEN v ELSE m[x]]

MapDelete(m, k) == [x \in (DOMAIN m) \ {k} |-> m[x]]

\* Array.prototype.splice(i, 1): the array without its element at index i.
SpliceOut(arr, i) == [j \in 1..(Len(arr) - 1) |-> IF j < i THEN arr[j] ELSE arr[j + 1]]

\* Array.prototype.pop: the array without its last element.
PopLast(arr) == SubSeq(arr, 1, Len(arr) - 1)

\* ------------------------------------------------------------ DrawingState
\* new DrawingState()
NewDrawingState == [history |-> <<>>, userRedoStacks |-> EmptyMap]

\* The object literal the draw handler passes to addOperation.  The field id
\* stands for the identity of the JavaScript object.
MakeOperation(id, userId, seg, now) ==
  [id |-> id, type |-> "draw", userId |-> userId,
   x0 |-> seg.x0, y0 |-> seg.y0, x1 |-> seg.x1, y1 |-> seg.y1,
   color |-> seg.color, width |-> seg.width, timestamp |-> now]

\* Variant: a new operation clears every redo stack (one global redo stack).
addOperationClearAll(ds, operation) ==
  [history |-> Append(ds.history, operation), userRedoStacks |-> EmptyMap]

\* Variant: the new operation is put in front (unshift instead of push).
addOperationFirst(ds, operation) ==
  [history |-> <<operation>> \o ds.history,
   userRedoStacks |-> MapDelete(ds.userRedoStacks, operation.userId)]

addOperation(ds, operation) ==
  [history |-> Append(ds.history, operation),
   userRedoStacks |-> MapDelete(ds.userRedoStacks, operation.userId)]

getHistory(ds) == ds.history

\* The backward loop of undoUserOperation: the first index, going down from i,
\* whose operation belongs to userId; 0 when the loop runs out.
RECURSIVE ScanBack(_, _, _)
ScanBack(history, userId, i) ==
  IF i < 1 THEN 0
  ELSE IF history[i].userId = userId THEN i
  ELSE ScanBack(history, userId, i - 1)

\* Variant: undo pops the last operation of history whoever drew it.
undoLastOperation(ds, userId) ==
  IF Len(ds.history) = 0
    THEN [ds |-> ds, ret |-> FALSE]
    ELSE LET operation == ds.history[Len(ds.history)]
             stacks == IF MapHas(ds.userRedoStacks, userId)
                         THEN ds.userRedoStacks
                         ELSE MapSet(ds.userRedoStacks, userId, <<>>)
         IN [ds |-> [history |-> PopLast(ds.history),
                     userRedoStacks |->
                       MapSet(stacks, userId, Append(stacks[userId], operation))],
             ret |-> TRUE]

\* Variant: undo that finds nothing still reports success.
undoAlwaysTrue(ds, userId) ==
  LET i == ScanBack(ds.history, userId, Len(ds.history)) IN
  IF i = 0
    THEN [ds |-> [history |-> ds.history,
                  userRedoStacks |-> MapSet(ds.userRedoStacks, userId, <<>>)],
          ret |-> TRUE]
    ELSE LET operation == ds.history[i]
             stacks == IF MapHas(ds.userRedoStacks, userId)
                         THEN ds.userRedoStacks
                         ELSE MapSet(ds.userRedoStacks, userId, <<>>)
         IN [ds |-> [history |-> SpliceOut(ds.history, i),
                     userRedoStacks |->
                       MapSet(stacks, userId, Append(stacks[userId], operation))],
             ret |-> TRUE]

\* Variant: undo starts the redo bookkeeping afresh (userRedoStacks is
\* replaced by a Map holding only the requester's stack).
undoResetsStacks(ds, userId) ==
  LET i == ScanBack(ds.history, userId, Len(ds.history)) IN
  IF i = 0
    THEN [ds |-> ds, ret |-> FALSE]
    ELSE LET operation == ds.history[i]
             stack == IF MapHas(ds.userRedoStacks, userId)
                        THEN ds.userRedoStacks[userId]
                        ELSE <<>>
         IN [ds |-> [history |-> SpliceOut(ds.history, i),
                     userRedoStacks |->
                       MapSet(EmptyMap, userId, Append(stack, operation))],
             ret |-> TRUE]

\* Variant: the scan runs forward and takes the requester's oldest operation.
undoOldest(ds, userId) ==
  LET own == {i \in 1..Len(ds.history) : ds.history[i].userId = userId} IN
  IF own = {}
    THEN [ds |-> ds, ret |-> FALSE]
    ELSE LET i == CHOOSE i \in own : \A j \in own : i <= j
             operation == ds.history[i]
             stacks == IF MapHas(ds.userRedoStacks, userId)
                         THEN ds.userRedoStacks
                         ELSE MapSet(ds.userRedoStacks, userId, <<>>)
         IN [ds |-> [history |-> SpliceOut(ds.history, i),
                     userRedoStacks |->
                       MapSet(stacks, userId, Append(stacks[userId], operation))],
             ret |-> TRUE]

\* Variant: the scan tests userId !== instead of ===, so it takes the newest
\* operation of somebody else.
undoNewestOfOthers(ds, userId) ==
  LET others == {i \in 1..Len(ds.history) : ds.history[i].userId # userId} IN
  IF others = {}
    THEN [ds |-> ds, ret |-> FALSE]
    ELSE LET i == CHOOSE i \in others : \A j \in others : j <= i
             operation == ds.history[i]
             stacks == IF MapHas(ds.userRedoStacks, userId)
                         THEN ds.userRedoStacks
                         ELSE MapSet(ds.userRedoStacks, userId, <<>>)
         IN [ds |-> [history |-> SpliceOut(ds.history, i),
                     userRedoStacks |->
                       MapSet(stacks, userId, Append(stacks[userId], operation))],
             ret |-> TRUE]

undoUserOperation(ds, userId) ==
  LET i == ScanBack(ds.history, userId, Len(ds.history)) IN
  IF i = 0
    THEN [ds |-> ds, ret |-> FALSE]
    ELSE LET operation == ds.history[i]
             stacks == IF MapHas(ds.userRedoStacks, userId)
                         THEN ds.userRedoStacks
                         ELSE MapSet(ds.userRedoStacks, userId, <<>>)
         IN [ds |-> [history |-> SpliceOut(ds.history, i),
                     userRedoStacks |->
                       MapSet(stacks, userId, Append(stacks[userId], operation))],
             ret |-> TRUE]

\* Variant: redo takes the oldest undone operation (shift instead of pop).
redoOldest(ds, userId) ==
  IF MapHas(ds.userRedoStacks, userId) /\ Len(ds.userRedoStacks[userId]) > 0
    THEN LET redoStack == ds.userRedoStacks[userId]
             operation == redoStack[1]
         IN [ds |-> [history |-> Append(ds.history, operation),
                     userRedoStacks |->
                       MapSet(ds.userRedoStacks, userId, Tail(redoStack))],
             ret |-> TRUE]
    ELSE [ds |-> ds, ret |-> FALSE]

\* Variant: redo reads the top of the stack without popping it.
redoWithoutPop(ds, userId) ==
  IF MapHas(ds.userRedoStacks, userId) /\ Len(ds.userRedoStacks[userId]) > 0
    THEN LET redoStack == ds.userRedoStacks[userId]
             operation == redoStack[Len(redoStack)]
         IN [ds |-> [history |-> Append(ds.history, operation),
                     userRedoStacks |-> ds.userRedoStacks],
             ret |-> TRUE]
    ELSE [ds |-> ds, ret |-> FALSE]

\* Variant: one redo stack shared by all users; a user with nothing to redo
\* gets the operation another user undid.
redoAnyStack(ds, userId) ==
  LET own == MapHas(ds.userRedoStacks, userId) /\ Len(ds.userRedoStacks[userId]) > 0
      others == {v \in DOMAIN ds.userRedoStacks : Len(ds.userRedoStacks[v]) > 0}
  IN IF own \/ others # {}
       THEN LET v == IF own THEN userId ELSE CHOOSE w \in others : TRUE
                redoStack == ds.userRedoStacks[v]
            IN [ds |-> [history |-> Append(ds.history, redoStack[Len(redoStack)]),
                        userRedoStacks |->
                          MapSet(ds.userRedoStacks, v, PopLast(redoStack))],
                ret |-> TRUE]
       ELSE [ds |-> ds, ret |-> FALSE]

redoUserOperation(ds, userId) ==
  IF MapHas(ds.userRedoStacks, userId) /\ Len(ds.userRedoStacks[userId]) > 0
    THEN LET redoStack == ds.userRedoStacks[userId]
             operation == redoStack[Len(redoStack)]
         IN [ds |-> [history |-> Append(ds.history, operation),
                     userRedoStacks |->
                       MapSet(ds.userRedoStacks, userId, PopLast(redoStack))],
             ret |-> TRUE]
    ELSE [ds |-> ds, ret |-> FALSE]

\* Variant: clear forgets the redo stacks.
clearHistoryOnly(ds) == [history |-> <<>>, userRedoStacks |-> ds.userRedoStacks]

clear(ds) == [history |-> <<>>, userRedoStacks |-> EmptyMap]

\* ------------------------------------------- the log driven call by call
NoCall == [name |-> "none", userId |-> "none"]

\* Nobody has set out on a round of undos and redos.
NoTrip == [user |-> "none", before |-> NewDrawingState]

\* A client as constructed: it is bound for the default room, written "r1"
\* here, and both of its local stacks are empty.
NewClient == [roomId |-> "r1", localUndoStack |-> <<>>, localRedoStack |-> <<>>]

\* The client has emitted nothing the server has yet to handle.
NoPacket == [event |-> "none"]

\* Array objects as a caller of the log sees them.  kind tells which object
\* the caller holds: "history" is the array this.history names, "own" an
\* array nobody else refers to, "none" no array yet; items is its content.
NoArray == [kind |-> "none", items |-> <<>>]

\* Variant: getHistory hands out this.history itself (return this.history).
getHistoryInPlace(ds) == [kind |-> "history", items |-> ds.history]

\* getHistory() as an array object: the spread [...this.history] builds a
\* new array with the same elements.
getHistoryArray(ds) == [kind |-> "own", items |-> ds.history]

\* push and splice change this.history in place: whoever holds that array
\* object sees its new content; any other array is left as it is.
InPlace(array, ds) ==
  IF array.kind = "history" THEN [array EXCEPT !.items = ds.history] ELSE array

\* clear() binds this.history to a new array: the array object it named
\* before keeps its content and belongs to its holder alone.
Rebound(array) ==
  IF array.kind = "history" THEN [array EXCEPT !.kind = "own"] ELSE array

InitGateway ==
  /\ rooms = <<>>
  /\ userColors = EmptyMap
  /\ connected = [s \in Sockets |-> "idle"]
  /\ socketRooms = [s \in Sockets |-> {}]
  /\ outbox = [s \in Sockets |-> <<>>]
  /\ view = [s \in Sockets |-> <<>>]

InitLog ==
  /\ InitGateway
  /\ log = NewDrawingState
  /\ ret = FALSE
  /\ call = NoCall
  /\ held = NoArray
  /\ trip = NoTrip
  /\ client = [s \in Sockets |-> NewClient]
  /\ uplink = [s \in Sockets |-> NoPacket]
  /\ nextId = 0
  /\ clock = 0

\* Date.now(): a millisecond later than the last one read, so that the
\* operations of a run carry different timestamps.
Now == {clock + 1}

CallAddOperation ==
  \E userId \in UserIds, seg \in Segments, now \in Now :
    /\ nextId < MaxOps
    /\ log' = addOperation(log, MakeOperation(nextId + 1, userId, seg, now))
    /\ nextId' = nextId + 1
    /\ clock' = now
    /\ ret' = FALSE
    /\ call' = [name |-> "addOperation", userId |-> userId]
    /\ held' = InPlace(held, log')
    /\ UNCHANGED <<trip, client, uplink>>
    /\ UNCHANGED gatewayVars

CallUndoUserOperation ==
  \E userId \in UserIds :
    /\ log' = undoUserOperation(log, userId).ds
    /\ ret' = undoUserOperation(log, userId).ret
    /\ call' = [name |-> "undoUserOperation", userId |-> userId]
    /\ held' = InPlace(held, log')
    /\ UNCHANGED <<trip, client, uplink>>
    /\ UNCHANGED <<nextId, clock>>
    /\ UNCHANGED gatewayVars

CallRedoUserOperation ==
  \E userId \in UserIds :
    /\ log' = redoUserOperation(log, userId).ds
    /\ ret' = redoUserOperation(log, userId).ret
    /\ call' = [name |-> "redoUserOperation", userId |-> userId]
    /\ held' = InPlace(held, log')
    /\ UNCHANGED <<trip, client, uplink>>
    /\ UNCHANGED <<nextId, clock>>
    /\ UNCHANGED gatewayVars

CallClear ==
  /\ log' = clear(log)
  /\ ret' = FALSE
  /\ call' = [name |-> "clear", userId |-> "none"]
  /\ held' = Rebound(held)
  /\ UNCHANGED <<trip, client, uplink>>
  /\ UNCHANGED <<nextId, clock>>
  /\ UNCHANGED gatewayVars

NextLog ==
  \/ CallAddOperation
  \/ CallUndoUserOperation
  \/ CallRedoUserOperation
  \/ CallClear

SpecLog == InitLog /\ [][NextLog]_vars

\* The log, used by A and B with one pen each, and a caller that keeps the
\* array of one getHistory() call and changes it: pushes an object of its own
\* onto it or pops its last element.
CallGetHistory ==
  /\ held.kind = "none"
  /\ held' = getHistoryArray(log)
  /\ ret' = held'.items
  /\ call' = [name |-> "getHistory", userId |-> "none"]
  /\ UNCHANGED <<log, trip, client, uplink, nextId, clock>>
  /\ UNCHANGED gatewayVars

CallerPush ==
  \E seg \in SegmentsOf("caller") :
    /\ held.kind # "none"
    /\ Len(held.items) < MaxOps
    /\ held' = [held EXCEPT !.items = Append(@, MakeOperation(0, "caller", seg, 0))]
    /\ log' = IF held.kind = "history" THEN [log EXCEPT !.history = held'.items] ELSE log
    /\ call' = [name |-> "push", userId |-> "none"]
    /\ UNCHANGED <<ret, trip, client, uplink, nextId, clock>>
    /\ UNCHANGED gatewayVars

CallerPop ==
  /\ held.kind # "none"
  /\ held.items # <<>>
  /\ held' = [held EXCEPT !.items = PopLast(@)]
  /\ log' = IF held.kind = "history" THEN [log EXCEPT !.history = held'.items] ELSE log
  /\ call' = [name |-> "pop", userId |-> "none"]
  /\ UNCHANGED <<ret, trip, client, uplink, nextId, clock>>
  /\ UNCHANGED gatewayVars

OwnPen ==
  call'.name = "addOperation" =>
    \E seg \in SegmentsOf(call'.userId) : log'.history[Len(log'.history)].color = seg.color

NextCaller ==
  \/ NextLog /\ call'.userId \in {"A", "B", "none"} /\ OwnPen
  \/ CallGetHistory
  \/ CallerPush
  \/ CallerPop

SpecCaller == InitLog /\ [][NextCaller]_vars

\* The log, used by A and B with one pen each, and a user who at some
\* moment sets out on a round of undos followed by redos: from then on that
\* user draws nothing, nobody clears, and the user redoes only what the
\* round has undone; the other user goes on drawing, undoing and redoing.
TripBegin ==
  \E userId \in {"A", "B"} :
    /\ trip = NoTrip
    /\ trip' = [user |-> userId, before |-> log]
    /\ UNCHANGED <<log, ret, call, held, client, uplink, nextId, clock>>
    /\ UNCHANGED gatewayVars

TripAllows ==
  trip # NoTrip =>
    /\ call' # [name |-> "addOperation", userId |-> trip.user]
    /\ call'.name # "clear"
    /\ call' = [name |-> "redoUserOperation", userId |-> trip.user] =>
         LET before == IF MapHas(trip.before.userRedoStacks, trip.user)
                         THEN Len(trip.before.userRedoStacks[trip.user]) ELSE 0
             now == IF MapHas(log.userRedoStacks, trip.user)
                      THEN Len(log.userRedoStacks[trip.user]) ELSE 0
         IN now > before

NextTrip ==
  \/ NextLog /\ call'.userId \in {"A", "B", "none"} /\ OwnPen /\ TripAllows
  \/ TripBegin

SpecTrip == InitLog /\ [][NextTrip]_vars

\* ------------------------------------------- Map with insertion order
\* A Map that the code iterates (rooms, room.users, room.cursorPositions) is
\* the sequence of its entries [key, value] in insertion order.
OMIndex(m, k) ==
  IF \E i \in 1..Len(m) : m[i].key = k
    THEN CHOOSE i \in 1..Len(m) : m[i].key = k
    ELSE 0

OMHas(m, k) == OMIndex(m, k) # 0

OMGet(m, k) == IF OMHas(m, k) THEN m[OMIndex(m, k)].value ELSE Undefined

\* Map.set keeps the position of an existing key and appends a new one.
OMSet(m, k, v) ==
  IF OMHas(m, k)
    THEN [i \in 1..Len(m) |-> IF m[i].key = k THEN [key |-> k, value |-> v] ELSE m[i]]
    ELSE Append(m, [key |-> k, value |-> v])

OMDelete(m, k) == IF OMHas(m, k) THEN SpliceOut(m, OMIndex(m, k)) ELSE m

OMKeys(m) == [i \in 1..Len(m) |-> m[i].key]

MapGet(m, k) == IF MapHas(m, k) THEN m[k] ELSE Undefined

\* -------------------------------------------------------------------- Room
NewRoom(roomId) ==
  [roomId |-> roomId, users |-> <<>>, cursorPositions |-> <<>>,
   drawingState |-> NewDrawingState]

addUser(room, userId, socketId, name) ==
  [room EXCEPT !.users = OMSet(@, userId, [socketId |-> socketId, name |-> name])]

\* Variant: the user is deleted and the cursor entry is forgotten.
removeUserKeepCursor(room, userId) ==
  [room EXCEPT !.users = OMDelete(@, userId)]

\* Variant: a user who leaves takes their operations along.
removeUserWithOperations(room, userId) ==
  LET NotBy(o) == o.userId # userId
  IN [room EXCEPT !.users = OMDelete(@, userId),
                  !.cursorPositions = OMDelete(@, userId),
                  !.drawingState.history = SelectSeq(@, NotBy)]

removeUser(room, userId) ==
  [room EXCEPT !.users = OMDelete(@, userId),
               !.cursorPositions = OMDelete(@, userId)]

\* Variant: every report is kept (a list of positions instead of a Map).
updateCursorAppend(room, userId, x, y) ==
  [room EXCEPT !.cursorPositions = Append(@, [key |-> userId, value |-> [x |-> x, y |-> y]])]

updateCursor(room, userId, x, y) ==
  [room EXCEPT !.cursorPositions = OMSet(@, userId, [x |-> x, y |-> y])]

getCursors(room) ==
  [i \in 1..Len(room.cursorPositions) |->
     [userId |-> room.cursorPositions[i].key,
      x |-> room.cursorPositions[i].value.x,
      y |-> room.cursorPositions[i].value.y]]

\* ----------------------------------------------------------------- gateway
colors == <<"#FF6B6B", "#4ECDC4", "#45B7D1", "#FFA07A", "#98D8C8", "#F7DC6F", "#BB8FCE", "#85C1E2">>

\* Array.from(room.users.entries()).map(...) of the join and disconnect handlers.
usersWithColors(room, colorMap) ==
  [i \in 1..Len(room.users) |->
     [userId |-> room.users[i].key,
      name |-> room.users[i].value.name,
      color |-> MapGet(colorMap, room.users[i].key)]]

\* The users list of the cursor-move handler (field userName, not name).
cursorUsers(room, colorMap) ==
  [i \in 1..Len(room.users) |->
     [userId |-> room.users[i].key,
      userName |-> room.users[i].value.name,
      color |-> MapGet(colorMap, room.users[i].key)]]

\* The sockets in the socket.io room roomId, given every socket's rooms.
InRoom(sr, roomId) == {s \in Sockets : roomId \in sr[s]}

\* emit to a set of sockets: the message joins the queue of each.
EmitTo(ob, recipients, msg) ==
  [s \in Sockets |-> IF s \in recipients THEN Append(ob[s], msg) ELSE ob[s]]

\* The model keeps at most MaxInFlight undelivered messages per socket.
Fits(ob) == \A s \in Sockets : Len(ob[s]) <= MaxInFlight

\* Variant: the connection handler opens the first room ahead of any join.
ConnectOpensRoom(socket) ==
  /\ connected[socket] = "idle"
  /\ \A t \in Sockets : t < socket => connected[t] # "idle"
  /\ connected' = [connected EXCEPT ![socket] = "connected"]
  /\ rooms' = IF OMHas(rooms, "r1") THEN rooms ELSE OMSet(rooms, "r1", NewRoom("r1"))
  /\ UNCHANGED <<userColors, socketRooms, outbox, view, nextId, clock>>
  /\ UNCHANGED logVars

\* io.on("connection"): sockets reach the server in the order of their ids.
Connect(socket) ==
  /\ connected[socket] = "idle"
  /\ \A t \in Sockets : t < socket => connected[t] # "idle"
  /\ connected' = [connected EXCEPT ![socket] = "connected"]
  /\ UNCHANGED <<rooms, userColors, socketRooms, outbox, view, nextId, clock>>
  /\ UNCHANGED logVars

\* Variant: the arrival is announced with io.to, which reaches the joiner too.
JoinRoomNotifyAll(socket, roomId, userId, userName) ==
  LET previous == socketRooms[socket]
      afterLeave == IF previous # {}
                      THEN previous \ {CHOOSE r \in previous : TRUE}
                      ELSE previous
      joined == [socketRooms EXCEPT ![socket] = afterLeave \cup {roomId}]
      rooms1 == IF OMHas(rooms, roomId) THEN rooms
                ELSE OMSet(rooms, roomId, NewRoom(roomId))
      room == addUser(OMGet(rooms1, roomId), userId, socket, userName)
      colorIndex == Len(room.users) % Len(colors)
      colorMap == MapSet(userColors, userId, colors[colorIndex + 1])
      users == usersWithColors(room, colorMap)
      toCaller == EmitTo(outbox, {socket},
                    [event |-> "drawing-history",
                     operations |-> getHistory(room.drawingState),
                     userId |-> userId,
                     color |-> MapGet(colorMap, userId),
                     users |-> users])
      toOthers == EmitTo(toCaller, InRoom(joined, roomId),
                    [event |-> "user-joined",
                     userId |-> userId,
                     userName |-> userName,
                     color |-> MapGet(colorMap, userId),
                     users |-> users])
  IN /\ connected[socket] = "connected"
     /\ Fits(toOthers)
     /\ socketRooms' = joined
     /\ rooms' = OMSet(rooms1, roomId, room)
     /\ userColors' = colorMap
     /\ outbox' = toOthers
     /\ UNCHANGED <<connected, view, nextId, clock>>
     /\ UNCHANGED logVars

\* Variant: rooms.set(roomId, new Room(roomId)) without the rooms.has test.
JoinRoomAlwaysNew(socket, roomId, userId, userName) ==
  LET previous == socketRooms[socket]
      afterLeave == IF previous # {}
                      THEN previous \ {CHOOSE r \in previous : TRUE}
                      ELSE previous
      joined == [socketRooms EXCEPT ![socket] = afterLeave \cup {roomId}]
      rooms1 == OMSet(rooms, roomId, NewRoom(roomId))
      room == addUser(OMGet(rooms1, roomId), userId, socket, userName)
      colorIndex == Len(room.users) % Len(colors)
      colorMap == MapSet(userColors, userId, colors[colorIndex + 1])
      users == usersWithColors(room, colorMap)
      toCaller == EmitTo(outbox, {socket},
                    [event |-> "drawing-history",
                     operations |-> getHistory(room.drawingState),
                     userId |-> userId,
                     color |-> MapGet(colorMap, userId),
                     users |-> users])
      toOthers == EmitTo(toCaller, InRoom(joined, roomId) \ {socket},
                    [event |-> "user-joined",
                     userId |-> userId,
                     userName |-> userName,
                     color |-> MapGet(colorMap, userId),
                     users |-> users])
  IN /\ connected[socket] = "connected"
     /\ Fits(toOthers)
     /\ socketRooms' = joined
     /\ rooms' = OMSet(rooms1, roomId, room)
     /\ userColors' = colorMap
     /\ outbox' = toOthers
     /\ UNCHANGED <<connected, view, nextId, clock>>
     /\ UNCHANGED logVars

\* Variant: the color index is the number of users before the insertion.
JoinRoomColorBefore(socket, roomId, userId, userName) ==
  LET previous == socketRooms[socket]
      afterLeave == IF previous # {}
                      THEN previous \ {CHOOSE r \in previous : TRUE}
                      ELSE previous
      joined == [socketRooms EXCEPT ![socket] = afterLeave \cup {roomId}]
      rooms1 == IF OMHas(rooms, roomId) THEN rooms
                ELSE OMSet(rooms, roomId, NewRoom(roomId))
      room == addUser(OMGet(rooms1, roomId), userId, socket, userName)
      colorIndex == Len(OMGet(rooms1, roomId).users) % Len(colors)
      colorMap == MapSet(userColors, userId, colors[colorIndex + 1])
      users == usersWithColors(room, colorMap)
      toCaller == EmitTo(outbox, {socket},
                    [event |-> "drawing-history",
                     operations |-> getHistory(room.drawingState),
                     userId |-> userId,
                     color |-> MapGet(colorMap, userId),
                     users |-> users])
      toOthers == EmitTo(toCaller, InRoom(joined, roomId) \ {socket},
                    [event |-> "user-joined",
                     userId |-> userId,
                     userName |-> userName,
                     color |-> MapGet(colorMap, userId),
                     users |-> users])
  IN /\ connected[socket] = "connected"
     /\ Fits(toOthers)
     /\ socketRooms' = joined
     /\ rooms' = OMSet(rooms1, roomId, room)
     /\ userColors' = colorMap
     /\ outbox' = toOthers
     /\ UNCHANGED <<connected, view, nextId, clock>>
     /\ UNCHANGED logVars

JoinRoom(socket, roomId, userId, userName) ==
  LET previous == socketRooms[socket]
      afterLeave == IF previous # {}
                      THEN previous \ {CHOOSE r \in previous : TRUE}
                      ELSE previous
      joined == [socketRooms EXCEPT ![socket] = afterLeave \cup {roomId}]
      rooms1 == IF OMHas(rooms, roomId) THEN rooms
                ELSE OMSet(rooms, roomId, NewRoom(roomId))
      room == addUser(OMGet(rooms1, roomId), userId, socket, userName)
      colorIndex == Len(room.users) % Len(colors)
      colorMap == MapSet(userColors, userId, colors[colorIndex + 1])
      users == usersWithColors(room, colorMap)
      toCaller == EmitTo(outbox, {socket},
                    [event |-> "drawing-history",
                     operations |-> getHistory(room.drawingState),
                     userId |-> userId,
                     color |-> MapGet(colorMap, userId),
                     users |-> users])
      toOthers == EmitTo(toCaller, InRoom(joined, roomId) \ {socket},
                    [event |-> "user-joined",
                     userId |-> userId,
                     userName |-> userName,
                     color |-> MapGet(colorMap, userId),
                     users |-> users])
  IN /\ connected[socket] = "connected"
     /\ Fits(toOthers)
     /\ socketRooms' = joined
     /\ rooms' = OMSet(rooms1, roomId, room)
     /\ userColors' = colorMap
     /\ outbox' = toOthers
     /\ UNCHANGED <<connected, view, nextId, clock>>
     /\ UNCHANGED logVars

\* Variant: the draw is announced with socket.to, which skips the sender.
DrawToOthers(socket, roomId, userId, seg, now) ==
  LET operation == MakeOperation(nextId + 1, userId, seg, now)
      sent == EmitTo(outbox, InRoom(socketRooms, roomId) \ {socket},
                [event |-> "new-draw-operation", userId |-> userId,
                 x0 |-> seg.x0, y0 |-> seg.y0, x1 |-> seg.x1, y1 |-> seg.y1,
                 color |-> seg.color, width |-> seg.width])
  IN /\ connected[socket] = "connected"
     /\ nextId < MaxDraws
     /\ Fits(sent)
     /\ IF OMHas(rooms, roomId)
          THEN /\ rooms' = OMSet(rooms, roomId,
                     [OMGet(rooms, roomId) EXCEPT
                        !.drawingState = addOperation(@, operation)])
               /\ clock' = now
          ELSE UNCHANGED <<rooms, clock>>
     /\ nextId' = nextId + 1
     /\ outbox' = sent
     /\ UNCHANGED <<userColors, connected, socketRooms, view>>
     /\ UNCHANGED logVars

Draw(socket, roomId, userId, seg, now) ==
  LET operation == MakeOperation(nextId + 1, userId, seg, now)
      sent == EmitTo(outbox, InRoom(socketRooms, roomId),
                [event |-> "new-draw-operation", userId |-> userId,
                 x0 |-> seg.x0, y0 |-> seg.y0, x1 |-> seg.x1, y1 |-> seg.y1,
                 color |-> seg.color, width |-> seg.width])
  IN /\ connected[socket] = "connected"
     /\ nextId < MaxDraws
     /\ Fits(sent)
     /\ IF OMHas(rooms, roomId)
          THEN /\ rooms' = OMSet(rooms, roomId,
                     [OMGet(rooms, roomId) EXCEPT
                        !.drawingState = addOperation(@, operation)])
               /\ clock' = now
          ELSE UNCHANGED <<rooms, clock>>
     /\ nextId' = nextId + 1
     /\ outbox' = sent
     /\ UNCHANGED <<userColors, connected, socketRooms, view>>
     /\ UNCHANGED logVars

CursorMove(socket, roomId, userId, x, y) ==
  /\ connected[socket] = "connected"
  /\ IF OMHas(rooms, roomId)
       THEN LET room == updateCursor(OMGet(rooms, roomId), userId, x, y)
                sent == EmitTo(outbox, InRoom(socketRooms, roomId) \ {socket},
                          [event |-> "user-cursors",
                           cursors |-> getCursors(room),
                           users |-> cursorUsers(room, userColors)])
            IN /\ Fits(sent)
               /\ rooms' = OMSet(rooms, roomId, room)
               /\ outbox' = sent
       ELSE UNCHANGED <<rooms, outbox>>
  /\ UNCHANGED <<userColors, connected, socketRooms, view, nextId, clock>>
  /\ UNCHANGED logVars

\* Variant: the undo broadcasts the history it read before the mutation.
RequestUndoStale(socket, roomId, userId) ==
  /\ connected[socket] = "connected"
  /\ IF OMHas(rooms, roomId)
       THEN LET room == [OMGet(rooms, roomId) EXCEPT
                           !.drawingState = undoUserOperation(@, userId).ds]
                sent == EmitTo(outbox, InRoom(socketRooms, roomId),
                          [event |-> "drawing-history",
                           operations |-> getHistory(OMGet(rooms, roomId).drawingState),
                           isUndoRedo |-> TRUE])
            IN /\ Fits(sent)
               /\ rooms' = OMSet(rooms, roomId, room)
               /\ outbox' = sent
       ELSE UNCHANGED <<rooms, outbox>>
  /\ UNCHANGED <<userColors, connected, socketRooms, view, nextId, clock>>
  /\ UNCHANGED logVars

RequestUndo(socket, roomId, userId) ==
  /\ connected[socket] = "connected"
  /\ IF OMHas(rooms, roomId)
       THEN LET room == [OMGet(rooms, roomId) EXCEPT
                           !.drawingState = undoUserOperation(@, userId).ds]
                sent == EmitTo(outbox, InRoom(socketRooms, roomId),
                          [event |-> "drawing-history",
                           operations |-> getHistory(room.drawingState),
                           isUndoRedo |-> TRUE])
            IN /\ Fits(sent)
               /\ rooms' = OMSet(rooms, roomId, room)
               /\ outbox' = sent
       ELSE UNCHANGED <<rooms, outbox>>
  /\ UNCHANGED <<userColors, connected, socketRooms, view, nextId, clock>>
  /\ UNCHANGED logVars

RequestRedo(socket, roomId, userId) ==
  /\ connected[socket] = "connected"
  /\ IF OMHas(rooms, roomId)
       THEN LET room == [OMGet(rooms, roomId) EXCEPT
                           !.drawingState = redoUserOperation(@, userId).ds]
                sent == EmitTo(outbox, InRoom(socketRooms, roomId),
                          [event |-> "drawing-history",
                           operations |-> getHistory(room.drawingState),
                           isUndoRedo |-> TRUE])
            IN /\ Fits(sent)
               /\ rooms' = OMSet(rooms, roomId, room)
               /\ outbox' = sent
       ELSE UNCHANGED <<rooms, outbox>>
  /\ UNCHANGED <<userColors, connected, socketRooms, view, nextId, clock>>
  /\ UNCHANGED logVars

ClearCanvas(socket, roomId) ==
  /\ connected[socket] = "connected"
  /\ IF OMHas(rooms, roomId)
       THEN LET room == [OMGet(rooms, roomId) EXCEPT !.drawingState = clear(@)]
                sent == EmitTo(outbox, InRoom(socketRooms, roomId),
                          [event |-> "drawing-history",
                           operations |-> <<>>,
                           isCleared |-> TRUE])
            IN /\ Fits(sent)
               /\ rooms' = OMSet(rooms, roomId, room)
               /\ outbox' = sent
       ELSE UNCHANGED <<rooms, outbox>>
  /\ UNCHANGED <<userColors, connected, socketRooms, view, nextId, clock>>
  /\ UNCHANGED logVars

\* Array.find over room.users: the index of the first entry, in insertion
\* order, whose socketId is the socket; 0 when there is none.
FindBySocket(users, socket) ==
  IF \E i \in 1..Len(users) : users[i].value.socketId = socket
    THEN CHOOSE i \in 1..Len(users) :
           /\ users[i].value.socketId = socket
           /\ \A j \in 1..(i - 1) : users[j].value.socketId # socket
    ELSE 0

\* Variant: the disconnect handler without the clean-up of empty rooms.
RECURSIVE DisconnectLoopKeepRoom(_, _, _, _)
DisconnectLoopKeepRoom(socket, keys, sr, st) ==
  IF keys = <<>> THEN st
  ELSE
    LET roomId == Head(keys)
        room == OMGet(st.rooms, roomId)
        found == FindBySocket(room.users, socket)
    IN IF found = 0
         THEN DisconnectLoopKeepRoom(socket, Tail(keys), sr, st)
         ELSE
           LET userId == room.users[found].key
               left == removeUser(room, userId)
               colorMap == MapDelete(st.userColors, userId)
               sent == EmitTo(st.outbox, InRoom(sr, roomId),
                         [event |-> "user-left", userId |-> userId,
                          users |-> usersWithColors(left, colorMap)])
               rooms2 == OMSet(st.rooms, roomId, left)
           IN DisconnectLoopKeepRoom(socket, Tail(keys), sr,
                [rooms |-> rooms2, userColors |-> colorMap, outbox |-> sent])

\* The body of rooms.forEach in the disconnect handler, room after room in
\* insertion order; st carries rooms, userColors and the outboxes along.
RECURSIVE DisconnectLoop(_, _, _, _)
DisconnectLoop(socket, keys, sr, st) ==
  IF keys = <<>> THEN st
  ELSE
    LET roomId == Head(keys)
        room == OMGet(st.rooms, roomId)
        found == FindBySocket(room.users, socket)
    IN IF found = 0
         THEN DisconnectLoop(socket, Tail(keys), sr, st)
         ELSE
           LET userId == room.users[found].key
               left == removeUser(room, userId)
               colorMap == MapDelete(st.userColors, userId)
               sent == EmitTo(st.outbox, InRoom(sr, roomId),
                         [event |-> "user-left", userId |-> userId,
                          users |-> usersWithColors(left, colorMap)])
               rooms2 == IF Len(left.users) = 0
                           THEN OMDelete(st.rooms, roomId)
                           ELSE OMSet(st.rooms, roomId, left)
           IN DisconnectLoop(socket, Tail(keys), sr,
                [rooms |-> rooms2, userColors |-> colorMap, outbox |-> sent])

\* The connection closes: socket.io takes the socket out of its rooms, then
\* the disconnect handler runs.  Messages still queued for it are lost and
\* its client shows nothing of the room any more.
Disconnect(socket) ==
  LET sr == [socketRooms EXCEPT ![socket] = {}]
      ob == [outbox EXCEPT ![socket] = <<>>]
      st == DisconnectLoop(socket, OMKeys(rooms), sr,
              [rooms |-> rooms, userColors |-> userColors, outbox |-> ob])
  IN /\ connected[socket] = "connected"
     /\ Fits(st.outbox)
     /\ connected' = [connected EXCEPT ![socket] = "disconnected"]
     /\ socketRooms' = sr
     /\ rooms' = st.rooms
     /\ userColors' = st.userColors
     /\ outbox' = st.outbox
     /\ view' = [view EXCEPT ![socket] = <<>>]
     /\ UNCHANGED <<nextId, clock>>
     /\ UNCHANGED logVars

\* ------------------------------------------------------------------ client
\* What the canvas shows: the strokes painted since the last clearRect.
StrokeOf(d) ==
  [x0 |-> d.x0, y0 |-> d.y0, x1 |-> d.x1, y1 |-> d.y1,
   color |-> d.color, width |-> d.width]

\* CanvasDrawing.redrawCanvas: clear, then replay the operations of type draw.
RECURSIVE redrawCanvas(_)
redrawCanvas(operations) ==
  IF operations = <<>> THEN <<>>
  ELSE IF Head(operations).type = "draw"
         THEN <<StrokeOf(Head(operations))>> \o redrawCanvas(Tail(operations))
         ELSE redrawCanvas(Tail(operations))

\* WebSocketClient.drawRemoteLine: one more stroke on the canvas.
drawRemoteLine(canvas, data) == Append(canvas, StrokeOf(data))

\* The client of a socket receives the oldest message in flight.
Deliver(socket) ==
  /\ connected[socket] = "connected"
  /\ outbox[socket] # <<>>
  /\ LET data == Head(outbox[socket]) IN
       view' = [view EXCEPT ![socket] =
                  IF data.event = "drawing-history" THEN redrawCanvas(data.operations)
                  ELSE IF data.event = "new-draw-operation" THEN drawRemoteLine(@, data)
                  ELSE @]
  /\ outbox' = [outbox EXCEPT ![socket] = Tail(@)]
  /\ UNCHANGED <<rooms, userColors, connected, socketRooms, nextId, clock>>
  /\ UNCHANGED logVars

Init ==
  /\ InitGateway
  /\ log = NewDrawingState
  /\ ret = FALSE
  /\ call = NoCall
  /\ held = NoArray
  /\ trip = NoTrip
  /\ client = [s \in Sockets |-> NewClient]
  /\ uplink = [s \in Sockets |-> NoPacket]
  /\ nextId = 0
  /\ clock = 0

Next ==
  \/ \E socket \in Sockets : Connect(socket)
  \/ \E socket \in Sockets, roomId \in RoomIds, userId \in GatewayUserIds,
        userName \in UserNames : JoinRoom(socket, roomId, userId, userName)
  \/ \E socket \in Sockets, roomId \in RoomIds, userId \in GatewayUserIds :
       \E seg \in SegmentsOf(userId), now \in Now :
         Draw(socket, roomId, userId, seg, now)
  \/ \E socket \in Sockets, roomId \in RoomIds, userId \in GatewayUserIds :
        RequestUndo(socket, roomId, userId)
  \/ \E socket \in Sockets, roomId \in RoomIds, userId \in GatewayUserIds :
        RequestRedo(socket, roomId, userId)
  \/ \E socket \in Sockets, roomId \in RoomIds : ClearCanvas(socket, roomId)
  \/ \E socket \in Sockets : Disconnect(socket)
  \/ \E socket \in Sockets : Deliver(socket)

Spec == Init /\ [][Next]_vars

\* The gateway with cursor traffic in place of drawing traffic.
NextCursor ==
  \/ \E socket \in Sockets : Connect(socket)
  \/ \E socket \in Sockets, roomId \in RoomIds, userId \in GatewayUserIds,
        userName \in UserNames : JoinRoom(socket, roomId, userId, userName)
  \/ \E socket \in Sockets, roomId \in RoomIds, userId \in GatewayUserIds,
        p \in Points : CursorMove(socket, roomId, userId, p.x, p.y)
  \/ \E socket \in Sockets : Disconnect(socket)
  \/ \E socket \in Sockets : Deliver(socket)

SpecCursor == Init /\ [][NextCursor]_vars

\* The gateway on a network that has handed every message to its client
\* before the server takes the next event: what a handler does never depends
\* on the messages in flight, so the server passes through the same states.
Quiet == \A s \in Sockets : outbox[s] = <<>>

NextLockstep ==
  \/ \E socket \in Sockets : Quiet /\ Connect(socket)
  \/ \E socket \in Sockets, roomId \in RoomIds, userId \in GatewayUserIds,
        userName \in UserNames :
        Quiet /\ JoinRoom(socket, roomId, userId, userName)
  \/ \E socket \in Sockets, roomId \in RoomIds, userId \in GatewayUserIds :
       \E seg \in SegmentsOf(userId), now \in Now :
         Quiet /\ Draw(socket, roomId, userId, seg, now)
  \/ \E socket \in Sockets, roomId \in RoomIds, userId \in GatewayUserIds :
        Quiet /\ RequestUndo(socket, roomId, userId)
  \/ \E socket \in Sockets, roomId \in RoomIds, userId \in GatewayUserIds :
        Quiet /\ RequestRedo(socket, roomId, userId)
  \/ \E socket \in Sockets, roomId \in RoomIds :
        Quiet /\ ClearCanvas(socket, roomId)
  \/ \E socket \in Sockets : Quiet /\ Disconnect(socket)
  \/ \E socket \in Sockets : Deliver(socket)

SpecLockstep == Init /\ [][NextLockstep]_vars

\* Cursor traffic in lockstep; a connection may close at any moment, with
\* messages for the others still in flight.
NextCursorLockstep ==
  \/ \E socket \in Sockets : Quiet /\ Connect(socket)
  \/ \E socket \in Sockets, roomId \in RoomIds, userId \in GatewayUserIds,
        userName \in UserNames :
        Quiet /\ JoinRoom(socket, roomId, userId, userName)
  \/ \E socket \in Sockets, roomId \in RoomIds, userId \in GatewayUserIds,
        p \in Points :
        Quiet /\ CursorMove(socket, roomId, userId, p.x, p.y)
  \/ \E socket \in Sockets : Disconnect(socket)
  \/ \E socket \in Sockets : Deliver(socket)

SpecCursorLockstep == Init /\ [][NextCursorLockstep]_vars

\* A room that fills up: the users of PaletteUsers join one room in that
\* order over either connection, the newest user possibly joining again,
\* and nobody leaves.
ArrivesNext(roomId, userId) ==
  LET n == IF OMHas(rooms, roomId) THEN Len(OMGet(rooms, roomId).users) ELSE 0
  IN \E k \in {n, n + 1} : k \in 1..Len(PaletteUsers) /\ userId = PaletteUsers[k]

NextPalette ==
  \/ \E socket \in Sockets : Quiet /\ Connect(socket)
  \/ \E socket \in Sockets, roomId \in RoomIds, userId \in PaletteUserIds,
        userName \in UserNames :
        Quiet /\ ArrivesNext(roomId, userId) /\ JoinRoom(socket, roomId, userId, userName)
  \/ \E socket \in Sockets : Deliver(socket)

SpecPalette == Init /\ [][NextPalette]_vars

\* Two rooms side by side, in lockstep.  A connection joins either room
\* under either userId and moves from one room to the other; its other
\* events go to a room it has joined, under a userId that room holds for it.
\* One stroke is drawn in the run, and only user A reports a cursor, at one
\* point while in r1.
TwoRoomIds == {"r1", "r2"}

SendsAs(socket, roomId, userId) ==
  /\ roomId \in socketRooms[socket]
  /\ OMHas(rooms, roomId)
  /\ OMHas(OMGet(rooms, roomId).users, userId)
  /\ OMGet(OMGet(rooms, roomId).users, userId).socketId = socket

NextRooms ==
  \/ \E socket \in Sockets : Quiet /\ Connect(socket)
  \/ \E socket \in Sockets, roomId \in TwoRoomIds, userId \in GatewayUserIds,
        userName \in UserNames :
        Quiet /\ JoinRoom(socket, roomId, userId, userName)
  \/ \E socket \in Sockets, roomId \in TwoRoomIds, userId \in GatewayUserIds :
       \E seg \in SegmentsOf(userId), now \in Now :
         Quiet /\ SendsAs(socket, roomId, userId) /\ nextId = 0
               /\ Draw(socket, roomId, userId, seg, now)
  \/ \E socket \in Sockets, roomId \in TwoRoomIds, userId \in GatewayUserIds,
        p \in Points :
        Quiet /\ SendsAs(socket, roomId, userId)
              /\ userId = "A" /\ roomId = "r1" /\ p.x = 0
              /\ CursorMove(socket, roomId, userId, p.x, p.y)
  \/ \E socket \in Sockets, roomId \in TwoRoomIds, userId \in GatewayUserIds :
        Quiet /\ SendsAs(socket, roomId, userId)
              /\ RequestUndo(socket, roomId, userId)
  \/ \E socket \in Sockets, roomId \in TwoRoomIds, userId \in GatewayUserIds :
        Quiet /\ SendsAs(socket, roomId, userId)
              /\ RequestRedo(socket, roomId, userId)
  \/ \E socket \in Sockets, roomId \in TwoRoomIds, userId \in GatewayUserIds :
        Quiet /\ SendsAs(socket, roomId, userId) /\ ClearCanvas(socket, roomId)
  \/ \E socket \in Sockets : Quiet /\ Disconnect(socket)
  \/ \E socket \in Sockets : Deliver(socket)

SpecRooms == Init /\ [][NextRooms]_vars

\* Drawing and pointing in one room, in lockstep: the users join, draw and
\* undo under their own userId, anybody reports a cursor for any userId, and
\* nobody leaves.
NextPointer ==
  \/ \E socket \in Sockets : Quiet /\ Connect(socket)
  \/ \E socket \in Sockets, roomId \in RoomIds, userId \in GatewayUserIds,
        userName \in UserNames :
        Quiet /\ JoinRoom(socket, roomId, userId, userName)
  \/ \E socket \in Sockets, roomId \in RoomIds, userId \in GatewayUserIds :
       \E seg \in SegmentsOf(userId), now \in Now :
         Quiet /\ SendsAs(socket, roomId, userId)
               /\ Draw(socket, roomId, userId, seg, now)
  \/ \E socket \in Sockets, roomId \in RoomIds, userId \in GatewayUserIds :
        Quiet /\ SendsAs(socket, roomId, userId)
              /\ RequestUndo(socket, roomId, userId)
  \/ \E socket \in Sockets, roomId \in RoomIds, userId \in GatewayUserIds,
        p \in Points :
        Quiet /\ CursorMove(socket, roomId, userId, p.x, p.y)
  \/ \E socket \in Sockets : Deliver(socket)

SpecPointer == Init /\ [][NextPointer]_vars

\* Every event of the gateway in one room, in lockstep: the users join under
\* either userId, send their other events for the room and the userId they
\* joined with, report their cursor at one point, and leave.
NextSession ==
  \/ \E socket \in Sockets : Quiet /\ Connect(socket)
  \/ \E socket \in Sockets, roomId \in RoomIds, userId \in GatewayUserIds,
        userName \in UserNames :
        Quiet /\ JoinRoom(socket, roomId, userId, userName)
  \/ \E socket \in Sockets, roomId \in RoomIds, userId \in GatewayUserIds :
       \E seg \in SegmentsOf(userId), now \in Now :
         Quiet /\ SendsAs(socket, roomId, userId)
               /\ Draw(socket, roomId, userId, seg, now)
  \/ \E socket \in Sockets, roomId \in RoomIds, userId \in GatewayUserIds,
        p \in Points :
        Quiet /\ SendsAs(socket, roomId, userId) /\ p.x = 0
              /\ CursorMove(socket, roomId, userId, p.x, p.y)
  \/ \E socket \in Sockets, roomId \in RoomIds, userId \in GatewayUserIds :
        Quiet /\ SendsAs(socket, roomId, userId)
              /\ RequestUndo(socket, roomId, userId)
  \/ \E socket \in Sockets, roomId \in RoomIds, userId \in GatewayUserIds :
        Quiet /\ SendsAs(socket, roomId, userId)
              /\ RequestRedo(socket, roomId, userId)
  \/ \E socket \in Sockets, roomId \in RoomIds, userId \in GatewayUserIds :
        Quiet /\ SendsAs(socket, roomId, userId) /\ ClearCanvas(socket, roomId)
  \/ \E socket \in Sockets : Quiet /\ Disconnect(socket)
  \/ \E socket \in Sockets : Deliver(socket)

SpecSession == Init /\ [][NextSession]_vars

\* ------------------------------------------------------------ the clients
\* generateUserId: every client makes up a userId of its own.
generateUserId(socket) == IF socket = 1 THEN "A" ELSE "B"

\* The client's isConnected flag, set and reset by the socket's "connect" and
\* "disconnect" listeners; a client emits one message at a time and waits for
\* the server to have handled it.
Ready(socket) ==
  /\ connected[socket] = "connected"
  /\ \A s \in Sockets : uplink[s] = NoPacket
  /\ Quiet

\* The "connect" listener: the client joins the room it is bound for.
joinRoom(socket) ==
  /\ Ready(socket)
  /\ socketRooms[socket] = {}
  /\ uplink' = [uplink EXCEPT ![socket] =
                  [event |-> "join-room", roomId |-> client[socket].roomId,
                   userId |-> generateUserId(socket), userName |-> "User"]]
  /\ UNCHANGED <<client, log, ret, call, held, trip, nextId, clock>>
  /\ UNCHANGED gatewayVars

\* changeRoom: the client is bound for the new room and joins it; its local
\* stacks stay as they are.
changeRoom(socket, newRoomId) ==
  /\ Ready(socket)
  /\ socketRooms[socket] # {}
  /\ client' = [client EXCEPT ![socket].roomId = newRoomId]
  /\ uplink' = [uplink EXCEPT ![socket] =
                  [event |-> "join-room", roomId |-> newRoomId,
                   userId |-> generateUserId(socket), userName |-> "User"]]
  /\ UNCHANGED <<log, ret, call, held, trip, nextId, clock>>
  /\ UNCHANGED gatewayVars

\* sendDrawing: the operation goes onto localUndoStack, localRedoStack is
\* emptied, and the segment is sent to the room the client is bound for.
sendDrawing(socket, seg) ==
  /\ Ready(socket)
  /\ socketRooms[socket] # {}
  /\ nextId < MaxDraws
  /\ client' = [client EXCEPT
                  ![socket].localUndoStack =
                     Append(@, MakeOperation(0, generateUserId(socket), seg, clock + 1)),
                  ![socket].localRedoStack = <<>>]
  /\ uplink' = [uplink EXCEPT ![socket] =
                  [event |-> "draw", roomId |-> client[socket].roomId,
                   userId |-> generateUserId(socket), seg |-> seg]]
  /\ UNCHANGED <<log, ret, call, held, trip, nextId, clock>>
  /\ UNCHANGED gatewayVars

\* requestUndo: only with something on localUndoStack; its last operation
\* moves to localRedoStack and the request is sent.
requestUndo(socket) ==
  /\ Ready(socket)
  /\ socketRooms[socket] # {}
  /\ client[socket].localUndoStack # <<>>
  /\ client' = [client EXCEPT
                  ![socket].localUndoStack = PopLast(@),
                  ![socket].localRedoStack =
                     Append(@, client[socket].localUndoStack[Len(client[socket].localUndoStack)])]
  /\ uplink' = [uplink EXCEPT ![socket] =
                  [event |-> "request-undo", roomId |-> client[socket].roomId,
                   userId |-> generateUserId(socket)]]
  /\ UNCHANGED <<log, ret, call, held, trip, nextId, clock>>
  /\ UNCHANGED gatewayVars

\* requestRedo: only with something on localRedoStack; its last operation
\* moves back to localUndoStack and the request is sent.
requestRedo(socket) ==
  /\ Ready(socket)
  /\ socketRooms[socket] # {}
  /\ client[socket].localRedoStack # <<>>
  /\ client' = [client EXCEPT
                  ![socket].localRedoStack = PopLast(@),
                  ![socket].localUndoStack =
                     Append(@, client[socket].localRedoStack[Len(client[socket].localRedoStack)])]
  /\ uplink' = [uplink EXCEPT ![socket] =
                  [event |-> "request-redo", roomId |-> client[socket].roomId,
                   userId |-> generateUserId(socket)]]
  /\ UNCHANGED <<log, ret, call, held, trip, nextId, clock>>
  /\ UNCHANGED gatewayVars

\* requestClearCanvas: the request is sent; the local stacks stay as they are.
requestClearCanvas(socket) ==
  /\ Ready(socket)
  /\ socketRooms[socket] # {}
  /\ uplink' = [uplink EXCEPT ![socket] =
                  [event |-> "clear-canvas", roomId |-> client[socket].roomId]]
  /\ UNCHANGED <<client, log, ret, call, held, trip, nextId, clock>>
  /\ UNCHANGED gatewayVars

\* The server is about to handle the message the client of socket has
\* emitted for event.
Arrives(socket, event) ==
  /\ Quiet
  /\ uplink[socket].event = event

\* A handled message is off the wire: the handler has run once what it emits
\* to the sender is on its way.
Handled(socket) ==
  /\ uplink[socket] # NoPacket
  /\ outbox[socket] # <<>>
  /\ uplink' = [uplink EXCEPT ![socket] = NoPacket]
  /\ UNCHANGED <<client, log, ret, call, held, trip, nextId, clock>>
  /\ UNCHANGED gatewayVars

\* Two clients and two rooms: each client joins on connecting, draws with
\* its own pen, asks for undos and redos as its local stacks allow, clears,
\* switches rooms and leaves; every message is handled before the next is
\* emitted.
NextClients ==
  \/ \E socket \in Sockets : Quiet /\ Connect(socket)
  \/ \E socket \in Sockets : joinRoom(socket)
  \/ \E socket \in Sockets, newRoomId \in TwoRoomIds : changeRoom(socket, newRoomId)
  \/ \E socket \in Sockets :
       \E seg \in SegmentsOf(generateUserId(socket)) : sendDrawing(socket, seg)
  \/ \E socket \in Sockets : requestUndo(socket)
  \/ \E socket \in Sockets : requestRedo(socket)
  \/ \E socket \in Sockets : requestClearCanvas(socket)
  \/ \E socket \in Sockets :
       /\ Arrives(socket, "join-room")
       /\ JoinRoom(socket, uplink[socket].roomId, uplink[socket].userId,
                   uplink[socket].userName)
  \/ \E socket \in Sockets, now \in Now :
       /\ Arrives(socket, "draw")
       /\ Draw(socket, uplink[socket].roomId, uplink[socket].userId,
               uplink[socket].seg, now)
  \/ \E socket \in Sockets :
       /\ Arrives(socket, "request-undo")
       /\ RequestUndo(socket, uplink[socket].roomId, uplink[socket].userId)
  \/ \E socket \in Sockets :
       /\ Arrives(socket, "request-redo")
       /\ RequestRedo(socket, uplink[socket].roomId, uplink[socket].userId)
  \/ \E socket \in Sockets :
       /\ Arrives(socket, "clear-canvas")
       /\ ClearCanvas(socket, uplink[socket].roomId)
  \/ \E socket \in Sockets : Handled(socket)
  \/ \E socket \in Sockets :
       (\A s \in Sockets : uplink[s] = NoPacket) /\ Quiet /\ Disconnect(socket)
  \/ \E socket \in Sockets :
       (\A s \in Sockets : uplink[s] = NoPacket) /\ Deliver(socket)

SpecClients == Init /\ [][NextClients]_vars

\* ---------------------------------------------------------------- claims
\* Helpers the properties are stated with.
IndicesOf(history, userId) == {i \in 1..Len(history) : history[i].userId = userId}

MaxOf(S) == CHOOSE m \in S : \A n \in S : n <= m

\* The redo stack of userId, empty when the Map has no entry.
StackOf(ds, userId) ==
  IF userId \in DOMAIN ds.userRedoStacks THEN ds.userRedoStacks[userId] ELSE <<>>

SeqToSet(seq) == {seq[i] : i \in 1..Len(seq)}

\* Every operation object the log holds, in history or in a redo stack.
AllOperations(ds) ==
  SeqToSet(ds.history) \cup
  UNION {SeqToSet(ds.userRedoStacks[u]) : u \in DOMAIN ds.userRedoStacks}

Called(c, name, userId) == c = [name |-> name, userId |-> userId]

\* C1: undo(U) on a history holding an operation of U removes exactly the
\* operation at the highest index whose userId is U, keeps all other elements
\* in their order, pushes it last on U's redo stack and returns true.
C1_UndoRemovesOwnLatest ==
  [][\A u \in UserIds :
       (Called(call', "undoUserOperation", u) /\ IndicesOf(log.history, u) # {}) =>
         LET h == log.history
             m == MaxOf(IndicesOf(h, u))
         IN /\ Len(log'.history) = Len(h) - 1
            /\ \A j \in 1..(Len(h) - 1) :
                 log'.history[j] = IF j < m THEN h[j] ELSE h[j + 1]
            /\ StackOf(log', u) = Append(StackOf(log, u), h[m])
            /\ ret' = TRUE]_vars

\* C1 witness: a successful undo took an operation out from under a newer
\* operation of another user, which is still in history.
C1_Witness ==
  \E u \in UserIds :
    /\ Called(call, "undoUserOperation", u) /\ ret = TRUE
    /\ Len(StackOf(log, u)) > 0
    /\ \E i \in 1..Len(log.history) :
         /\ log.history[i].userId # u
         /\ log.history[i].id > StackOf(log, u)[Len(StackOf(log, u))].id

\* C2: redo(U) with a non-empty stack pops the stack's last element and
\* appends it at the tail of history; the earlier elements keep their order;
\* returns true.
C2_RedoAppendsAtTail ==
  [][\A u \in UserIds :
       (Called(call', "redoUserOperation", u) /\ Len(StackOf(log, u)) > 0) =>
         LET st == StackOf(log, u) IN
         /\ Len(log'.history) = Len(log.history) + 1
         /\ \A j \in 1..Len(log.history) : log'.history[j] = log.history[j]
         /\ log'.history[Len(log'.history)] = st[Len(st)]
         /\ StackOf(log', u) = SubSeq(st, 1, Len(st) - 1)
         /\ ret' = TRUE]_vars

\* C2 witness: a redo put an operation at the tail behind a younger one (so
\* not at its original position) while an older undone operation of the same
\* user stays on the stack.
C2_Witness ==
  \E u \in UserIds :
    /\ Called(call, "redoUserOperation", u) /\ ret = TRUE
    /\ Len(log.history) >= 2
    /\ log.history[Len(log.history)].id < log.history[Len(log.history) - 1].id
    /\ Len(StackOf(log, u)) > 0

\* C3: appending an operation of U deletes U's redo stack and leaves every
\* other user's stack as it was; a redo(U) right after returns false and
\* changes nothing, a redo(V) of another user with undone work restores it.
C3_AppendClearsOnlyAuthorsRedo ==
  [][\A u \in UserIds :
       /\ Called(call', "addOperation", u) =>
            /\ StackOf(log', u) = <<>>
            /\ \A v \in UserIds \ {u} :
                 /\ StackOf(log', v) = StackOf(log, v)
                 /\ (v \in DOMAIN log'.userRedoStacks) = (v \in DOMAIN log.userRedoStacks)
       /\ (Called(call, "addOperation", u) /\ Called(call', "redoUserOperation", u)) =>
            (ret' = FALSE /\ log' = log)
       /\ \A v \in UserIds \ {u} :
            (/\ Called(call, "addOperation", u)
             /\ Called(call', "redoUserOperation", v)
             /\ Len(StackOf(log, v)) > 0) =>
              /\ ret' = TRUE
              /\ log'.history = Append(log.history, StackOf(log, v)[Len(StackOf(log, v))])]_vars

\* C3 witness: a user drew after having undone (so had a redo stack that the
\* draw removed) while another user still holds an undone operation.
C3_Witness ==
  \E u \in UserIds, v \in UserIds :
    /\ u # v
    /\ Called(call, "addOperation", u)
    /\ Len(StackOf(log, v)) > 0
    /\ Len(log.history) >= 2

\* C6: no operation object occurs twice among history and the redo stacks,
\* and undo and redo only move an operation between history and its author's
\* redo stack, never changing one of its fields.
\* The container an operation is in: "history" or the key of its redo stack.
WhereIs(ds, o) ==
  IF o \in SeqToSet(ds.history) THEN "history"
  ELSE CHOOSE v \in DOMAIN ds.userRedoStacks : o \in SeqToSet(ds.userRedoStacks[v])

NoRepeat(seq) == \A i, j \in 1..Len(seq) : i # j => seq[i].id # seq[j].id

IdsOf(seq) == {seq[i].id : i \in 1..Len(seq)}

C6_SingleLiveCopy ==
  /\ [](/\ NoRepeat(log.history)
        /\ \A u \in DOMAIN log.userRedoStacks :
             /\ NoRepeat(log.userRedoStacks[u])
             /\ IdsOf(log.userRedoStacks[u]) \cap IdsOf(log.history) = {}
             /\ \A v \in DOMAIN log.userRedoStacks \ {u} :
                  IdsOf(log.userRedoStacks[u]) \cap IdsOf(log.userRedoStacks[v]) = {})
  /\ [][call'.name \in {"undoUserOperation", "redoUserOperation"} =>
          /\ AllOperations(log') = AllOperations(log)
          /\ \A o \in AllOperations(log) :
               WhereIs(log', o) # WhereIs(log, o) =>
                 {WhereIs(log, o), WhereIs(log', o)} = {"history", o.userId}]_vars

\* C6 witness: an operation sits on a redo stack and two others in history
\* after a redo.
C6_Witness ==
  /\ call.name = "redoUserOperation" /\ ret = TRUE
  /\ Len(log.history) >= 2
  /\ \E u \in DOMAIN log.userRedoStacks : Len(log.userRedoStacks[u]) > 0

\* C7: undo(U) on a history without an operation of U returns false and
\* leaves history and every redo stack unchanged.
C7_UndoNothingIsNoOp ==
  [][\A u \in UserIds :
       (Called(call', "undoUserOperation", u) /\ IndicesOf(log.history, u) = {}) =>
         (ret' = FALSE /\ log' = log)]_vars

\* C7 witness: an undo returned false on a history holding only operations
\* of other users.
C7_Witness ==
  \E u \in UserIds :
    /\ Called(call, "undoUserOperation", u) /\ ret = FALSE
    /\ Len(log.history) >= 2
    /\ IndicesOf(log.history, u) = {}

\* C8: redo(U) with no redo stack or an empty one returns false and leaves
\* history and every redo stack unchanged.
C8_RedoNothingIsNoOp ==
  [][\A u \in UserIds :
       (Called(call', "redoUserOperation", u) /\ Len(StackOf(log, u)) = 0) =>
         (ret' = FALSE /\ log' = log)]_vars

\* C8 witness: a redo returned false for a user with an emptied stack while
\* another user has undone work.
C8_Witness ==
  \E u \in UserIds, v \in UserIds :
    /\ u # v
    /\ Called(call, "redoUserOperation", u) /\ ret = FALSE
    /\ u \in DOMAIN log.userRedoStacks
    /\ Len(StackOf(log, v)) > 0

\* C9: after clear, history and every redo stack are empty, and an undo or
\* redo right after it returns false and leaves history empty.
C9_ClearIsTotal ==
  [][/\ call'.name = "clear" =>
          (log'.history = <<>> /\ \A u \in UserIds : StackOf(log', u) = <<>>)
     /\ (call.name = "clear" /\ call'.name \in {"undoUserOperation", "redoUserOperation"}) =>
          (ret' = FALSE /\ log'.history = <<>>)]_vars

\* C9 witness: a clear ran after all the operations of the run were created
\* and left nothing.
C9_Witness ==
  /\ call.name = "clear"
  /\ nextId = MaxOps
  /\ AllOperations(log) = {}

\* The sockets in the socket.io room roomId now.
MembersOf(roomId) == InRoom(socketRooms, roomId)

\* The history the server holds for roomId: that of its Room, and nothing
\* when the registry has no such Room (what a join would then start from).
HistoryOf(rs, roomId) ==
  IF OMHas(rs, roomId) THEN OMGet(rs, roomId).drawingState.history ELSE <<>>

RedoStackOf(rs, roomId, userId) == StackOf(OMGet(rs, roomId).drawingState, userId)

\* In this step every socket of the room got exactly one more message, the
\* same for all and satisfying P, and no other socket got any.
LastOf(seq) == seq[Len(seq)]

SentToRoom(roomId, P(_)) ==
  \A t \in Sockets :
    IF t \in MembersOf(roomId)
      THEN /\ Len(outbox'[t]) = Len(outbox[t]) + 1
           /\ SubSeq(outbox'[t], 1, Len(outbox[t])) = outbox[t]
           /\ P(LastOf(outbox'[t]))
      ELSE outbox'[t] = outbox[t]

IsHistoryOf(roomId, m) ==
  /\ m.event = "drawing-history"
  /\ m.operations = HistoryOf(rooms, roomId)'

\* C4: after request-undo, request-redo or clear-canvas for an existing room
\* every connection in the room, the requester included, is sent a
\* drawing-history whose operations are the room's history right after the
\* mutation (empty for clear), with or without effect; with history
\* [Alice's, Bob's] Alice's undo broadcasts [Bob's] and her redo then
\* broadcasts [Bob's, Alice's].
C4_FullHistoryBroadcast ==
  [][\A socket \in Sockets, roomId \in RoomIds :
       /\ \A userId \in GatewayUserIds :
            /\ (RequestUndo(socket, roomId, userId) /\ OMHas(rooms, roomId)) =>
                 /\ LET IsIt(m) == IsHistoryOf(roomId, m) IN SentToRoom(roomId, IsIt)
                 /\ LET h == HistoryOf(rooms, roomId) IN
                      (Len(h) = 2 /\ h[1].userId = userId /\ h[2].userId # userId) =>
                        \A t \in MembersOf(roomId) :
                          LastOf(outbox'[t]).operations = <<h[2]>>
            /\ (RequestRedo(socket, roomId, userId) /\ OMHas(rooms, roomId)) =>
                 /\ LET IsIt(m) == IsHistoryOf(roomId, m) IN SentToRoom(roomId, IsIt)
                 /\ LET h == HistoryOf(rooms, roomId)
                        st == RedoStackOf(rooms, roomId, userId)
                    IN (Len(h) = 1 /\ h[1].userId # userId /\ Len(st) = 1) =>
                         \A t \in MembersOf(roomId) :
                           LastOf(outbox'[t]).operations = <<h[1], st[1]>>
       /\ (ClearCanvas(socket, roomId) /\ OMHas(rooms, roomId)) =>
            LET IsIt(m) == IsHistoryOf(roomId, m) /\ m.operations = <<>>
            IN SentToRoom(roomId, IsIt)]_vars

\* C4 witness: two connections of a room each hold an undelivered
\* drawing-history that equals the room's history [Bob's, Alice's], Alice's
\* operation being the older one (it was undone and redone).
C4_Witness ==
  \E roomId \in RoomIds :
    /\ OMHas(rooms, roomId)
    /\ Cardinality(MembersOf(roomId)) = 2
    /\ LET h == HistoryOf(rooms, roomId) IN
         /\ Len(h) = 2 /\ h[1].userId = "B" /\ h[2].userId = "A" /\ h[2].id < h[1].id
         /\ \A t \in MembersOf(roomId) :
              /\ outbox[t] # <<>>
              /\ LastOf(outbox[t]).event = "drawing-history"
              /\ "isUndoRedo" \in DOMAIN LastOf(outbox[t])
              /\ LastOf(outbox[t]).operations = h

\* C5: whenever no message is in flight, the canvas of every connection
\* joined to a room shows exactly the server's current history of that room.
C5_ViewsAgree ==
  (\A t \in Sockets : outbox[t] = <<>>) =>
    \A s \in Sockets, roomId \in RoomIds :
      (connected[s] = "connected" /\ roomId \in socketRooms[s]) =>
        view[s] = redrawCanvas(HistoryOf(rooms, roomId))

\* C10: a draw for an existing room appends one operation with the event's
\* userId, coordinates, color and width at the tail of the room's history and
\* sends every connection in the room, the sender included, one
\* new-draw-operation with that segment and nothing else.
C10_DrawAppendsAndBroadcasts ==
  [][\A socket \in Sockets, roomId \in RoomIds, userId \in GatewayUserIds,
        seg \in Segments, now \in Now :
       (Draw(socket, roomId, userId, seg, now) /\ OMHas(rooms, roomId)) =>
         /\ LET h == HistoryOf(rooms, roomId)
                h2 == HistoryOf(rooms, roomId)'
            IN /\ Len(h2) = Len(h) + 1
               /\ SubSeq(h2, 1, Len(h)) = h
               /\ LastOf(h2).userId = userId
               /\ StrokeOf(LastOf(h2)) = seg
         /\ LET IsIt(m) == /\ m.event = "new-draw-operation"
                           /\ m.userId = userId
                           /\ StrokeOf(m) = seg
            IN SentToRoom(roomId, IsIt)]_vars

\* C10 witness: the newest operation of a room's history is in flight as a
\* new-draw-operation to both connections of the room, behind no other
\* message.
C10_Witness ==
  \E roomId \in RoomIds :
    /\ Cardinality(MembersOf(roomId)) = 2
    /\ Len(HistoryOf(rooms, roomId)) = 2
    /\ \A t \in MembersOf(roomId) :
         /\ outbox[t] # <<>>
         /\ LastOf(outbox[t]).event = "new-draw-operation"
         /\ LastOf(outbox[t]).userId = LastOf(HistoryOf(rooms, roomId)).userId
         /\ StrokeOf(LastOf(outbox[t])) = StrokeOf(LastOf(HistoryOf(rooms, roomId)))

\* C11: on join-room the requester is sent one drawing-history carrying the
\* room's complete current history and a user list that includes the joiner;
\* every other connection already in the room is sent one user-joined with
\* the same updated user list, the requester none, and no one else anything.
C11_JoinSnapshotAndNotice ==
  [][\A socket \in Sockets, roomId \in RoomIds, userId \in GatewayUserIds,
        userName \in UserNames :
       JoinRoom(socket, roomId, userId, userName) =>
         LET users == usersWithColors(OMGet(rooms', roomId), userColors')
         IN /\ Len(outbox'[socket]) = Len(outbox[socket]) + 1
            /\ SubSeq(outbox'[socket], 1, Len(outbox[socket])) = outbox[socket]
            /\ LET m == LastOf(outbox'[socket]) IN
                 /\ m.event = "drawing-history"
                 /\ m.operations = HistoryOf(rooms, roomId)
                 /\ m.operations = HistoryOf(rooms', roomId)
                 /\ m.users = users
                 /\ \E i \in 1..Len(m.users) : m.users[i].userId = userId
            /\ \A t \in Sockets \ {socket} :
                 IF roomId \in socketRooms[t]
                   THEN /\ Len(outbox'[t]) = Len(outbox[t]) + 1
                        /\ SubSeq(outbox'[t], 1, Len(outbox[t])) = outbox[t]
                        /\ LastOf(outbox'[t]).event = "user-joined"
                        /\ LastOf(outbox'[t]).userId = userId
                        /\ LastOf(outbox'[t]).users = users
                   ELSE outbox'[t] = outbox[t]]_vars

\* C11 witness: a joiner's snapshot with a stored operation and two users is
\* in flight to one connection, and the user-joined with the same user list
\* is in flight to the other connection of the room.
C11_Witness ==
  \E s \in Sockets, t \in Sockets, roomId \in RoomIds :
    /\ s # t
    /\ {s, t} \subseteq MembersOf(roomId)
    /\ outbox[s] # <<>> /\ outbox[t] # <<>>
    /\ LastOf(outbox[s]).event = "drawing-history"
    /\ "users" \in DOMAIN LastOf(outbox[s])
    /\ LastOf(outbox[s]).operations = HistoryOf(rooms, roomId)
    /\ Len(LastOf(outbox[s]).operations) >= 1
    /\ Len(LastOf(outbox[s]).users) = 2
    /\ LastOf(outbox[t]).event = "user-joined"
    /\ LastOf(outbox[t]).users = LastOf(outbox[s]).users

C13_OneRoomPerId ==
  /\ [](NoRepeat(OMKeys(rooms)))
  /\ [][\A socket \in Sockets, roomId \in RoomIds, userId \in GatewayUserIds,
          userName \in UserNames :
          (JoinRoom(socket, roomId, userId, userName) /\ OMHas(rooms, roomId)) =>
            LET old == OMGet(rooms, roomId)
                new == OMGet(rooms', roomId)
            IN /\ OMKeys(rooms') = OMKeys(rooms)
               /\ new.drawingState = old.drawingState
               /\ new.cursorPositions = old.cursorPositions
               /\ SeqToSet(OMKeys(new.users)) =
                    SeqToSet(OMKeys(old.users)) \cup {userId}
               /\ \A i \in 1..Len(old.users) :
                    old.users[i].key # userId => old.users[i] \in SeqToSet(new.users)]_vars

\* C13 witness: the join of the second connection arrived first and the
\* join of the first connection found the Room: one Room, users B then A,
\* each bound to its own connection.
C13_Witness ==
  /\ Len(rooms) = 1
  /\ LET users == rooms[1].value.users IN
       /\ OMKeys(users) = <<"B", "A">>
       /\ users[1].value.socketId = 2
       /\ users[2].value.socketId = 1

\* C14: a draw, cursor-move, request-undo, request-redo or clear-canvas whose
\* roomId has no Room in the registry creates no Room, changes no log, user
\* map or cursor map, and sends no message to any connection.
C14_UnknownRoomIgnored ==
  [][\A socket \in Sockets, roomId \in RoomIds :
       ~OMHas(rooms, roomId) =>
         /\ \A userId \in GatewayUserIds :
              /\ (\E seg \in Segments, now \in Now :
                    Draw(socket, roomId, userId, seg, now)) =>
                   (rooms' = rooms /\ userColors' = userColors /\ outbox' = outbox)
              /\ (\E p \in Points : CursorMove(socket, roomId, userId, p.x, p.y)) =>
                   (rooms' = rooms /\ userColors' = userColors /\ outbox' = outbox)
              /\ RequestUndo(socket, roomId, userId) =>
                   (rooms' = rooms /\ userColors' = userColors /\ outbox' = outbox)
              /\ RequestRedo(socket, roomId, userId) =>
                   (rooms' = rooms /\ userColors' = userColors /\ outbox' = outbox)
         /\ ClearCanvas(socket, roomId) =>
              (rooms' = rooms /\ userColors' = userColors /\ outbox' = outbox)]_vars

\* The log the registry holds for roomId; Undefined when it holds no Room.
LogOf(rs, roomId) ==
  IF OMHas(rs, roomId) THEN OMGet(rs, roomId).drawingState ELSE Undefined

\* One of the four events that act on a log, sent by socket for roomId.
LogEvent(socket, roomId, userId) ==
  \/ \E seg \in Segments, now \in Now : Draw(socket, roomId, userId, seg, now)
  \/ RequestUndo(socket, roomId, userId)
  \/ RequestRedo(socket, roomId, userId)
  \/ ClearCanvas(socket, roomId)

\* C15: a draw, request-undo, request-redo or clear-canvas sent by a
\* connection that has completed no join-room leaves the log of the room it
\* names unchanged.
C15_UnjoinedDropped ==
  [][\A socket \in Sockets, roomId \in RoomIds, userId \in GatewayUserIds :
       (socketRooms[socket] = {} /\ LogEvent(socket, roomId, userId)) =>
         LogOf(rooms', roomId) = LogOf(rooms, roomId)]_vars

\* C16: a draw, request-undo or request-redo naming a userId that is not in
\* the users map of the target room changes neither that room's history nor
\* its redo stacks.
C16_StrangerDoesNotMutate ==
  [][\A socket \in Sockets, roomId \in RoomIds, userId \in GatewayUserIds :
       (/\ OMHas(rooms, roomId)
        /\ ~OMHas(OMGet(rooms, roomId).users, userId)
        /\ \/ \E seg \in Segments, now \in Now :
                Draw(socket, roomId, userId, seg, now)
           \/ RequestUndo(socket, roomId, userId)
           \/ RequestRedo(socket, roomId, userId)) =>
         /\ HistoryOf(rooms', roomId) = HistoryOf(rooms, roomId)
         /\ \A u \in GatewayUserIds :
              RedoStackOf(rooms', roomId, u) = RedoStackOf(rooms, roomId, u)]_vars

\* The positions of the entries of a users map bound to the connection.
BoundTo(users, socket) == {i \in 1..Len(users) : users[i].value.socketId = socket}

MinOf(S) == CHOOSE m \in S : \A n \in S : m <= n

\* C17: on disconnect of a connection bound to a user of a room, the user's
\* entry (the first bound to the connection) and the user's cursor entry
\* leave the room, nothing else of the room changes, the room is deleted if
\* no user remains, and every remaining connection in the room is sent one
\* user-left naming the user, with a user list that no longer holds the
\* user; the disconnect of a connection bound to no user changes neither
\* rooms nor colors and sends nothing.
C17_DisconnectRemovesUser ==
  [][\A socket \in Sockets :
       Disconnect(socket) =>
         /\ \A roomId \in RoomIds :
              OMHas(rooms, roomId) =>
                LET room == OMGet(rooms, roomId)
                    bound == BoundTo(room.users, socket)
                IN IF bound = {}
                     THEN /\ OMGet(rooms', roomId) = room
                          /\ \A t \in MembersOf(roomId) \ {socket} :
                               outbox'[t] = outbox[t]
                     ELSE LET userId == room.users[MinOf(bound)].key
                              rest == SpliceOut(room.users, MinOf(bound))
                          IN /\ IF rest = <<>>
                                  THEN ~OMHas(rooms', roomId)
                                  ELSE /\ OMHas(rooms', roomId)
                                       /\ OMGet(rooms', roomId) =
                                            [room EXCEPT
                                               !.users = rest,
                                               !.cursorPositions = OMDelete(@, userId)]
                                       /\ ~OMHas(OMGet(rooms', roomId).cursorPositions,
                                                 userId)
                             /\ \A t \in MembersOf(roomId) \ {socket} :
                                  /\ Len(outbox'[t]) = Len(outbox[t]) + 1
                                  /\ SubSeq(outbox'[t], 1, Len(outbox[t])) = outbox[t]
                                  /\ LET m == LastOf(outbox'[t]) IN
                                       /\ m.event = "user-left"
                                       /\ m.userId = userId
                                       /\ Len(m.users) = Len(rest)
                                       /\ \A i \in 1..Len(rest) :
                                            /\ m.users[i].userId = rest[i].key
                                            /\ m.users[i].userId # userId
         /\ \A t \in Sockets \ {socket} :
              (\A roomId \in RoomIds : t \notin MembersOf(roomId)) =>
                outbox'[t] = outbox[t]
         /\ (\A roomId \in RoomIds :
               OMHas(rooms, roomId) =>
                 BoundTo(OMGet(rooms, roomId).users, socket) = {}) =>
              /\ rooms' = rooms
              /\ userColors' = userColors
              /\ \A t \in Sockets \ {socket} : outbox'[t] = outbox[t]]_vars

\* C17 witness: the remaining connection of a room has in flight the cursors
\* message that still lists the cursor of user u and, behind it, the
\* user-left of u; the room now holds neither u nor a cursor of u.
C17_Witness ==
  \E t \in Sockets, roomId \in RoomIds :
    /\ OMHas(rooms, roomId)
    /\ t \in MembersOf(roomId)
    /\ Len(outbox[t]) = 2
    /\ outbox[t][1].event = "user-cursors"
    /\ outbox[t][2].event = "user-left"
    /\ LET u == outbox[t][2].userId IN
         /\ \E i \in 1..Len(outbox[t][1].cursors) : outbox[t][1].cursors[i].userId = u
         /\ ~OMHas(OMGet(rooms, roomId).users, u)
         /\ ~OMHas(OMGet(rooms, roomId).cursorPositions, u)
         /\ Len(OMGet(rooms, roomId).users) = 1

\* C18: the color a join assigns is colors[n mod 8], n being the number of
\* users in the room after the joiner was inserted: the joiner's snapshot and
\* both users lists report it, the first user of a new room gets colors[1]
\* and the 8th user present gets colors[0] (indices from 0 as in the code).
C18_ColorByCountAfterInsert ==
  [][\A socket \in Sockets, roomId \in RoomIds, userId \in PaletteUserIds,
        userName \in UserNames :
       JoinRoom(socket, roomId, userId, userName) =>
         LET n == Len(OMGet(rooms', roomId).users)
             m == LastOf(outbox'[socket])
         IN /\ MapGet(userColors', userId) = colors[(n % 8) + 1]
            /\ m.color = colors[(n % 8) + 1]
            /\ \A i \in 1..Len(m.users) :
                 m.users[i].userId = userId => m.users[i].color = colors[(n % 8) + 1]
            /\ (~OMHas(rooms, roomId)) => (n = 1 /\ m.color = "#4ECDC4")
            /\ (n = 8) => m.color = "#FF6B6B"]_vars

\* C18 witness: eight users are in the room, the first colored colors[1] and
\* the eighth, whose snapshot is in flight, colors[0].
C18_Witness ==
  \E s \in Sockets, roomId \in RoomIds :
    /\ OMHas(rooms, roomId)
    /\ OMKeys(OMGet(rooms, roomId).users) = SubSeq(PaletteUsers, 1, 8)
    /\ outbox[s] # <<>>
    /\ LastOf(outbox[s]).event = "drawing-history"
    /\ LastOf(outbox[s]).userId = "U8"
    /\ LastOf(outbox[s]).color = "#FF6B6B"
    /\ LastOf(outbox[s]).users[1].color = "#4ECDC4"
    /\ LastOf(outbox[s]).users[8].color = "#FF6B6B"

\* The color the server reports for userId in the users lists it sends.
ColorOf(colorMap, userId) == MapGet(colorMap, userId)

\* C19: any two users present in the same room have different assigned
\* colors as long as the room holds no more users than the palette has
\* colors.
C19_DistinctColors ==
  \A r \in 1..Len(rooms) :
    LET users == rooms[r].value.users IN
      Len(users) <= Len(colors) =>
        \A j \in 1..Len(users), k \in 1..Len(users) :
          j # k => ColorOf(userColors, users[j].key) # ColorOf(userColors, users[k].key)

\* C20: the color assigned to a user at join is the color reported for that
\* user as long as the user stays in the room: no event of any connection
\* changes the reported color of a user who is in the room before and after.
C20_ColorStable ==
  [][\A roomId \in RoomIds, userId \in GatewayUserIds :
       (/\ OMHas(rooms, roomId) /\ OMHas(rooms', roomId)
        /\ OMHas(OMGet(rooms, roomId).users, userId)
        /\ OMHas(OMGet(rooms', roomId).users, userId)) =>
         ColorOf(userColors', userId) = ColorOf(userColors, userId)]_vars

\* C21: every entry of a users list the server sends (drawing-history on
\* join, user-joined, user-left, user-cursors) names a user the room of the
\* recipient holds and carries a defined color.  In lockstep a message waits
\* in the outbox while the server state is the one it was computed from.
C21_UsersCarryColor ==
  \A s \in Sockets : \A i \in 1..Len(outbox[s]) :
    LET m == outbox[s][i] IN
      "users" \in DOMAIN m =>
        \A roomId \in socketRooms[s] : \A j \in 1..Len(m.users) :
          /\ OMHas(rooms, roomId)
          /\ OMHas(OMGet(rooms, roomId).users, m.users[j].userId)
          /\ m.users[j].color # Undefined

\* What the server holds for a room and the users list it would report.
RoomState(rs, roomId) == IF OMHas(rs, roomId) THEN OMGet(rs, roomId) ELSE Undefined

ReportedUsers(rs, colorMap, roomId) ==
  IF OMHas(rs, roomId) THEN usersWithColors(OMGet(rs, roomId), colorMap) ELSE <<>>

\* An event a connection addresses to a room.
RoomEvent(socket, roomId, userId) ==
  \/ \E userName \in UserNames : JoinRoom(socket, roomId, userId, userName)
  \/ \E seg \in Segments, now \in Now : Draw(socket, roomId, userId, seg, now)
  \/ \E p \in Points : CursorMove(socket, roomId, userId, p.x, p.y)
  \/ RequestUndo(socket, roomId, userId)
  \/ RequestRedo(socket, roomId, userId)
  \/ ClearCanvas(socket, roomId)

\* C22: an event addressed to room R (join, draw, cursor-move, undo, redo,
\* clear) leaves history, redo stacks, user map, cursor map and reported user
\* colors of every other room unchanged and sends only to connections joined
\* to R; a disconnect does the same for the rooms that hold no user of the
\* closing connection.
C22_RoomsShareNothing ==
  /\ [][\A socket \in Sockets, roomId \in TwoRoomIds, userId \in GatewayUserIds :
          RoomEvent(socket, roomId, userId) =>
            /\ \A other \in TwoRoomIds \ {roomId} :
                 /\ RoomState(rooms', other) = RoomState(rooms, other)
                 /\ ReportedUsers(rooms', userColors', other)
                      = ReportedUsers(rooms, userColors, other)
            /\ \A t \in Sockets :
                 outbox'[t] # outbox[t] => roomId \in socketRooms'[t]]_vars
  /\ [][\A socket \in Sockets :
          Disconnect(socket) =>
            LET Touched == {r \in TwoRoomIds :
                              /\ OMHas(rooms, r)
                              /\ FindBySocket(OMGet(rooms, r).users, socket) # 0}
            IN /\ \A other \in TwoRoomIds \ Touched :
                    /\ RoomState(rooms', other) = RoomState(rooms, other)
                    /\ ReportedUsers(rooms', userColors', other)
                         = ReportedUsers(rooms, userColors, other)
               /\ \A t \in Sockets \ {socket} :
                    outbox'[t] # outbox[t] => socketRooms'[t] \cap Touched # {}]_vars

\* Where the operation with identity id stands in a history that holds it.
PosOf(h, id) == CHOOSE i \in 1..Len(h) : h[i].id = id

\* The identities in the redo stacks of a room.
UndoneIn(rs, roomId) ==
  IF OMHas(rs, roomId)
    THEN LET ds == OMGet(rs, roomId).drawingState
         IN UNION {IdsOf(ds.userRedoStacks[u]) : u \in DOMAIN ds.userRedoStacks}
    ELSE {}

\* C23: the history of a room keeps the order in which the server processed
\* the draws.  Every step of the server leaves two operations that stay in
\* the history in the order they had; an operation that enters the history
\* enters at the tail; and it is either taken from a redo stack (it was
\* undone) or the operation of the draw processed in this step, which
\* carries the next identity in processing order, whatever its timestamp,
\* author and connection.  So two operations that were never undone stand
\* in the order their draws were processed.
C23_HistoryInProcessingOrder ==
  [][\A roomId \in RoomIds :
       LET h == HistoryOf(rooms, roomId)
           h2 == HistoryOf(rooms', roomId)
       IN /\ \A i \in 1..Len(h2), j \in 1..Len(h2) :
               (i < j /\ h2[i].id \in IdsOf(h) /\ h2[j].id \in IdsOf(h)) =>
                 PosOf(h, h2[i].id) < PosOf(h, h2[j].id)
          /\ \A j \in 1..Len(h2) :
               h2[j].id \notin IdsOf(h) =>
                 /\ j = Len(h2)
                 /\ \A i \in 1..(j - 1) : h2[i].id \in IdsOf(h)
                 /\ h2[j].id \notin UndoneIn(rooms, roomId) =>
                      /\ h2[j].id = nextId + 1
                      /\ nextId' = nextId + 1
                      /\ \A i \in 1..Len(h) : h[i].id < h2[j].id]_vars

\* C23 witness: two operations by different authors stand in the history in
\* the order of their draws while the one drawn second carries the smaller
\* segment coordinates and the first author is no user of the room.
C23_Witness ==
  \E roomId \in RoomIds :
    LET h == HistoryOf(rooms, roomId) IN
      /\ Len(h) = 2
      /\ h[1].id = 1 /\ h[2].id = 2
      /\ h[1].userId # h[2].userId
      /\ h[2].x0 < h[1].x0
      /\ UndoneIn(rooms, roomId) = {}
      /\ ~OMHas(OMGet(rooms, roomId).users, h[1].userId)

\* C25: getHistory returns a copy.  The call returns the operations of the
\* history in order and leaves the log alone; a push or pop on the returned
\* array leaves the log as it is; and an append, undo, redo or clear of the
\* log leaves the content of an array returned earlier as it is.
C25_GetHistoryReturnsCopy ==
  [][/\ call'.name = "getHistory" =>
          /\ held'.items = log.history
          /\ ret' = log.history
          /\ log' = log
     /\ call'.name \in {"push", "pop"} =>
          /\ held'.items # held.items
          /\ log' = log
     /\ (/\ call'.name \in {"addOperation", "undoUserOperation",
                            "redoUserOperation", "clear"}
         /\ held.kind # "none") =>
          held'.items = held.items]_vars

\* C25 witness: the caller holds an array of two operations it got from
\* getHistory and has pushed an object of its own onto it, and an undo has
\* since taken the first of the two out of the log's history.
C25_Witness ==
  /\ held.kind # "none"
  /\ Len(held.items) = 3
  /\ held.items[3].id = 0
  /\ call.name = "undoUserOperation"
  /\ Len(log.history) = 1
  /\ log.history[1] = held.items[2]

\* The positions a cursor map holds for userId.
CursorsOf(room, userId) ==
  {i \in 1..Len(room.cursorPositions) : room.cursorPositions[i].key = userId}

\* C26: a cursor-move for an existing room leaves the room with exactly one
\* stored position for the named user, the reported (x, y), leaves the other
\* users' positions, the user map, the history and the redo stacks as they
\* were, and the same cursor-move once more would leave the room as it is.
C26_CursorMoveSetsPosition ==
  [][\A socket \in Sockets, roomId \in RoomIds, userId \in GatewayUserIds,
        p \in Points :
       (CursorMove(socket, roomId, userId, p.x, p.y) /\ OMHas(rooms, roomId)) =>
         LET room == OMGet(rooms, roomId)
             room2 == OMGet(rooms', roomId)
         IN /\ Cardinality(CursorsOf(room2, userId)) = 1
            /\ OMGet(room2.cursorPositions, userId) = [x |-> p.x, y |-> p.y]
            /\ \A other \in GatewayUserIds \ {userId} :
                 /\ CursorsOf(room2, other) = CursorsOf(room, other)
                 /\ \A i \in CursorsOf(room, other) :
                      room2.cursorPositions[i] = room.cursorPositions[i]
            /\ room2.users = room.users
            /\ room2.drawingState = room.drawingState
            /\ updateCursor(room2, userId, p.x, p.y) = room2]_vars

\* C26 witness: a room with an operation in its history and one in a redo
\* stack stores different positions for its two users, and the user-cursors
\* that reports them is in flight.
C26_Witness ==
  \E roomId \in RoomIds, s \in Sockets :
    /\ OMHas(rooms, roomId)
    /\ Len(HistoryOf(rooms, roomId)) = 1
    /\ UndoneIn(rooms, roomId) # {}
    /\ LET c == OMGet(rooms, roomId).cursorPositions
       IN /\ Len(c) = 2
          /\ c[1].value # c[2].value
          /\ outbox[s] # <<>>
          /\ LastOf(outbox[s]).event = "user-cursors"
          /\ LastOf(outbox[s]).cursors = getCursors(OMGet(rooms, roomId))

\* Whether any user has an operation to redo.
SomeUndone(ds) == \E u \in DOMAIN ds.userRedoStacks : ds.userRedoStacks[u] # <<>>

\* C27: undo is global.  An undo on a non-empty history takes out its last
\* operation, whoever drew it and whoever asks, so that with the history
\* [Line(A), Circle(B), Rectangle(C)] an undo by A leaves [Line(A),
\* Circle(B)]; and a redo, whoever asks, puts an undone operation back.
C27_UndoIsGlobal ==
  [][\A u \in UserIds :
       /\ (Called(call', "undoUserOperation", u) /\ log.history # <<>>) =>
            /\ ret' = TRUE
            /\ log'.history = PopLast(log.history)
       /\ (Called(call', "redoUserOperation", u) /\ SomeUndone(log)) =>
            /\ ret' = TRUE
            /\ Len(log'.history) = Len(log.history) + 1]_vars

\* The operations of a history that userId did not author, in their order.
OthersIn(history, userId) ==
  LET NotBy(o) == o.userId # userId IN SelectSeq(history, NotBy)

\* C28: an undo or a redo by U leaves the operations of the other users in
\* the history, each present and in the same relative order, and leaves the
\* redo stack of every other user as it was.
C28_UndoRedoSpareOthers ==
  [][\A u \in UserIds :
       (Called(call', "undoUserOperation", u) \/ Called(call', "redoUserOperation", u)) =>
         /\ OthersIn(log'.history, u) = OthersIn(log.history, u)
         /\ \A v \in UserIds \ {u} : StackOf(log', v) = StackOf(log, v)]_vars

\* C28 witness: a user's undo succeeded on a log that holds an operation of
\* a second user in its history and one of a third user in a redo stack.
C28_Witness ==
  \E u \in UserIds, v \in UserIds, w \in UserIds :
    /\ u # v /\ u # w /\ v # w
    /\ Called(call, "undoUserOperation", u)
    /\ ret = TRUE
    /\ IndicesOf(log.history, v) # {}
    /\ StackOf(log, w) # <<>>
    /\ StackOf(log, u) # <<>>

\* The operations of a history that userId authored, in their order.
OwnIn(history, userId) ==
  LET By(o) == o.userId = userId IN SelectSeq(history, By)

\* C29: when a user has undone k operations and then redone k, with no draw
\* of that user and no clear since the round began, the history holds the
\* user's operations it held before, in the order they had, and the user's
\* redo stack has its prior content, whatever the other user drew, undid
\* and redid meanwhile.
C29_UndoRedoRoundTrip ==
  (/\ trip # NoTrip
   /\ Len(StackOf(log, trip.user)) = Len(StackOf(trip.before, trip.user))) =>
     /\ SeqToSet(OwnIn(log.history, trip.user))
          = SeqToSet(OwnIn(trip.before.history, trip.user))
     /\ OwnIn(log.history, trip.user) = OwnIn(trip.before.history, trip.user)
     /\ StackOf(log, trip.user) = StackOf(trip.before, trip.user)

\* C29 witness: the second of two redos that followed two undos of the user
\* has just succeeded, and the user's two operations, the first of which
\* headed the history before the round, now stand behind the other user's.
C29_Witness ==
  /\ trip # NoTrip
  /\ Called(call, "redoUserOperation", trip.user)
  /\ ret = TRUE
  /\ Len(StackOf(log, trip.user)) = Len(StackOf(trip.before, trip.user))
  /\ Len(OwnIn(log.history, trip.user)) = 2
  /\ Len(log.history) = 3
  /\ log.history[1].userId # trip.user
  /\ trip.before.history[1].userId = trip.user

\* C30: an operation that is in a room's history stays in it, unchanged,
\* through every step of the server except an undo requested under its
\* author's userId, a clear of that room, and a step after which the room is
\* gone; and the operations that stay keep their relative order.  So no
\* draw, redo, cursor-move, join, or disconnect that keeps the room takes an
\* operation out of the history or moves it.
C30_HistoryLeavesOnlyByUndoOrClear ==
  [][\A roomId \in RoomIds :
       LET h == HistoryOf(rooms, roomId)
           h2 == HistoryOf(rooms', roomId)
       IN /\ \A i \in 1..Len(h) :
               h[i] \notin SeqToSet(h2) =>
                 \/ \E socket \in Sockets : RequestUndo(socket, roomId, h[i].userId)
                 \/ \E socket \in Sockets : ClearCanvas(socket, roomId)
                 \/ ~OMHas(rooms', roomId)
          /\ \A i \in 1..Len(h), j \in 1..Len(h) :
               (i < j /\ h[i].id \in IdsOf(h2) /\ h[j].id \in IdsOf(h2)) =>
                 PosOf(h2, h[i].id) < PosOf(h2, h[j].id)]_vars

\* C30 witness: the author of the older of two operations has left the room
\* with its connection, the other user has a cursor stored, and both
\* operations are in the history in their order.
C30_Witness ==
  \E roomId \in RoomIds :
    /\ OMHas(rooms, roomId)
    /\ LET h == HistoryOf(rooms, roomId)
           room == OMGet(rooms, roomId)
       IN /\ Len(h) = 2
          /\ h[1].id = 1 /\ h[2].id = 2
          /\ h[1].userId # h[2].userId
          /\ ~OMHas(room.users, h[1].userId)
          /\ OMHas(room.cursorPositions, h[2].userId)
          /\ \E s \in Sockets : connected[s] = "disconnected"

\* The userIds a room holds in its user map, none when the registry has no
\* such room.
UsersOf(rs, roomId) ==
  IF OMHas(rs, roomId) THEN SeqToSet(OMKeys(OMGet(rs, roomId).users)) ELSE {}

\* C31: after every handler each Room in the registry has at least one user.
\* A Room enters the registry in a join-room for its roomId and then holds
\* the joiner alone; a Room leaves the registry in a disconnect, and every
\* user it held was bound to the closing connection.
C31_NoEmptyRoom ==
  /\ [](\A roomId \in TwoRoomIds : OMHas(rooms, roomId) => UsersOf(rooms, roomId) # {})
  /\ [][\A roomId \in TwoRoomIds :
          (~OMHas(rooms, roomId) /\ OMHas(rooms', roomId)) =>
            \E socket \in Sockets, userId \in GatewayUserIds, userName \in UserNames :
              /\ JoinRoom(socket, roomId, userId, userName)
              /\ UsersOf(rooms', roomId) = {userId}]_vars
  /\ [][\A roomId \in TwoRoomIds :
          (OMHas(rooms, roomId) /\ ~OMHas(rooms', roomId)) =>
            \E socket \in Sockets :
              /\ Disconnect(socket)
              /\ \A userId \in UsersOf(rooms, roomId) :
                   OMGet(OMGet(rooms, roomId).users, userId).socketId = socket]_vars

\* C31 witness: a connection has closed and its user was removed from r2,
\* which keeps its other user and is the only Room in the registry; the
\* user-left is in flight to the connection that stays.
C31_Witness ==
  /\ Len(rooms) = 1
  /\ rooms[1].key = "r2"
  /\ Len(rooms[1].value.users) = 1
  /\ rooms[1].value.users[1].value.socketId = 2
  /\ connected[1] = "disconnected"
  /\ outbox[2] # <<>>
  /\ LastOf(outbox[2]).event = "user-left"
  /\ Len(LastOf(outbox[2]).users) = 1

\* C32: once no connection is open any more, whatever join-room events the
\* connections sent before, the registry holds no Room and so no user entry.
C32_AllGoneLeavesNothing ==
  (\A s \in Sockets : connected[s] # "connected") => rooms = <<>>

\* The user entries bound to a connection, as pairs of roomId and userId.
EntriesOf(rs, socket) ==
  {e \in TwoRoomIds \X GatewayUserIds :
     /\ OMHas(rs, e[1])
     /\ OMHas(OMGet(rs, e[1]).users, e[2])
     /\ OMGet(OMGet(rs, e[1]).users, e[2]).socketId = socket}

\* C33: a connection is bound to at most one user entry over all rooms, in
\* the room whose broadcasts it receives; a join-room for R2 on a connection
\* joined to R1 takes its user out of R1's user map, and R1 out of the
\* registry when that leaves it empty.
C33_OneEntryPerConnection ==
  /\ [](\A socket \in Sockets :
          /\ Cardinality(EntriesOf(rooms, socket)) <= 1
          /\ \A e \in EntriesOf(rooms, socket) : e[1] \in socketRooms[socket])
  /\ [][\A socket \in Sockets, R1 \in TwoRoomIds, R2 \in TwoRoomIds,
          userId \in GatewayUserIds, userName \in UserNames :
          (/\ R1 # R2
           /\ R1 \in socketRooms[socket]
           /\ JoinRoom(socket, R2, userId, userName)) =>
             /\ \A e \in EntriesOf(rooms', socket) : e[1] # R1
             /\ (\A e \in EntriesOf(rooms, socket) :
                   e[1] = R1 => UsersOf(rooms, R1) = {e[2]}) => ~OMHas(rooms', R1)]_vars

\* C34: the cursor map of a room has entries only for userIds that are in
\* the room's user map.
C34_CursorsOfUsersOnly ==
  \A i \in 1..Len(rooms) :
    SeqToSet(OMKeys(rooms[i].value.cursorPositions))
      \subseteq SeqToSet(OMKeys(rooms[i].value.users))

\* The user userId of room roomId came back over the connection new while
\* the connection old, over which it had joined the room, is still open: old
\* is in the socket.io room, its entry there has been overwritten, and the
\* one entry that new holds in the room is that of userId.
Rejoined(old, new, roomId, userId) ==
  /\ old # new
  /\ connected[old] = "connected"
  /\ connected[new] = "connected"
  /\ roomId \in socketRooms[old] \cap socketRooms[new]
  /\ \A e \in EntriesOf(rooms, old) : e[1] # roomId
  /\ {e \in EntriesOf(rooms, new) : e[1] = roomId} = {<<roomId, userId>>}

\* C35: when a user has joined a room again over a new connection and the
\* disconnect of the old connection is processed afterwards, the user stays
\* in the room's user map, the room stays in the registry and the user
\* keeps the color.
C35_LateDisconnectSparesRejoined ==
  [][\A old \in Sockets, new \in Sockets, roomId \in TwoRoomIds,
        userId \in GatewayUserIds :
       (Rejoined(old, new, roomId, userId) /\ Disconnect(old)) =>
         /\ OMHas(rooms', roomId)
         /\ userId \in UsersOf(rooms', roomId)
         /\ MapGet(userColors', userId) # Undefined
         /\ MapGet(userColors', userId) = MapGet(userColors, userId)]_vars

\* C36: the redo stack the log keeps under a userId holds operations of
\* that userId only.
C36_RedoStackHoldsOwn ==
  \A u \in DOMAIN log.userRedoStacks :
    \A i \in 1..Len(log.userRedoStacks[u]) : log.userRedoStacks[u][i].userId = u

\* C36 witness: two users have an operation each in their redo stacks while
\* a third user's operation is in the history.
C36_Witness ==
  \E u \in UserIds, v \in UserIds, w \in UserIds :
    /\ u # v /\ u # w /\ v # w
    /\ Len(StackOf(log, u)) = 1
    /\ Len(StackOf(log, v)) = 1
    /\ IndicesOf(log.history, w) # {}

\* The server's redo stack for userId in roomId, empty when the registry has
\* no such room.
ServerRedoOf(rs, roomId, userId) ==
  IF OMHas(rs, roomId) THEN RedoStackOf(rs, roomId, userId) ELSE <<>>

\* Every message of every client has been handled and received, and the
\* client of socket is in the room it is bound for.
Settled(socket) ==
  /\ connected[socket] = "connected"
  /\ \A s \in Sockets : uplink[s] = NoPacket
  /\ Quiet
  /\ socketRooms[socket] = {client[socket].roomId}

\* C37: the client's gating never blocks an undo or a redo the server could
\* perform: when all messages have been handled, a client that alone uses its
\* userId has at least as many entries on localUndoStack as the history of
\* its room has operations of that userId, and at least as many on
\* localRedoStack as the room's redo stack for that userId has.
C37_GatingNeverBlocks ==
  \A socket \in Sockets :
    Settled(socket) =>
      LET userId == generateUserId(socket)
          roomId == client[socket].roomId
      IN /\ Len(client[socket].localUndoStack)
              >= Len(OwnIn(HistoryOf(rooms, roomId), userId))
         /\ Len(client[socket].localRedoStack)
              >= Len(ServerRedoOf(rooms, roomId, userId))
====
